---- MODULE Spec2Model ----
(***************************************************************************)
(* Run-continuation protocol of the TanStack AI HITL demo backend.         *)
(*                                                                         *)
(* POST /api/chat (backend/main.py chat, chat.stream) is modelled per open *)
(* connection: the request handler, the stream() generator with its turn   *)
(* loop and hub wait loop, wrapped by stream_with_error_handling.          *)
(* POST /api/continuation (post_continuation) pushes into the              *)
(* ContinuationHub (backend/continuations.py).  In Spec the run store is   *)
(* InMemoryRunStore (shared/store.py) without TTL and cap.                 *)
(*                                                                         *)
(* Further specifications drive one component each:                        *)
(*   ReconcilerSpec  load_messages on any flat UI message list;            *)
(*   StoreSpec       the run store, in memory and on Postgres              *)
(*                   (backend/store/postgres_run_store.py), under every    *)
(*                   configuration, any calls and a clock;                 *)
(*   UpsertSpec      set_messages and set_pending of one run with every    *)
(*                   kind of model and pending argument;                   *)
(*   SideBySideSpec  an InMemoryRunStore and a PostgresRunStoreAdapter of  *)
(*                   one configuration handed the same calls;              *)
(*   MethodsSpec     every method of a run store, set and upsert of the    *)
(*                   InMemoryRunStore included;                            *)
(*   UsageSpec       the usage provider of stream() on any result;         *)
(*   ArtifactSpec    InMemoryArtifactStore (backend/store/                 *)
(*                   artifact_store.py): store(), get, list, cleanup and   *)
(*                   a clock;                                              *)
(*   HubSpec         the ContinuationHub and the wait loop of stream():    *)
(*                   several waiting streams, pushes of any payload,       *)
(*                   timeouts, disconnects.                                *)
(*                                                                         *)
(* The adapter module of the tanstack_pydantic_ai package (from_request,   *)
(* run_stream_native, transform_stream, stream_with_error_handling) is not *)
(* part of the sources; it is modelled from the specification.  The agent  *)
(* runtime (model and tool calls) is the environment: its choices are      *)
(* nondeterministic.                                                       *)
(***************************************************************************)
EXTENDS Integers, Sequences, FiniteSets, TLC

\* ------------------------------------------------------------------------
\* Bounds
\* ------------------------------------------------------------------------

\* number of POST /api/continuation calls in one behaviour
MaxPush == 1

\* length of a flat UI message list handed to load_messages
MaxFlat == 5

\* minutes the clock of the run store advances
MaxClock == 2

\* length of a message list handed to set_messages
MaxStored == 3

\* calls of the artifact store's store() in one behaviour
MaxStore == 2

\* calls of ContinuationHub.push in one behaviour of the hub
MaxHubPush == 2

\* keep-alive lines one waiting stream emits
MaxKeepAlive == 2

\* ------------------------------------------------------------------------
\* Values
\* ------------------------------------------------------------------------

\* open connections (one logical task per connection)
Conns == {1, 2}

\* uuid4().hex minted for connection c when the body carries no run_id
MintedId(c) == IF c = 1 THEN "u1" ELSE "u2"

RunIds == {"u1", "u2"}

\* absent string / absent object
None == "none"

\* settings.llm_model
LlmModel == "cfg"

\* a model override a request body may carry
BodyModels == {None, "m1"}

\* tool call ids the model may decide on within one run
TIds == {"t1"}

\* "approval": a call of a tool registered with requires_approval=True
\* (execute_sql, export_csv); "external": a client-executed call.
\* The model's call is approval-gated; once approved the tool may itself
\* raise CallDeferred (export_csv) and the call is then pending again as a
\* client-executed call.
RequestedKind(t) == "approval"

ToolReq(t, k) == [id |-> t, kind |-> k]

NoApprovals == [t \in TIds |-> "none"]

\* ContinuationPayload: approvals maps a tool call id to yes/no (or is
\* silent about it), tool_results is the set of ids a result is given for
Payloads ==
    {p \in [approvals : [TIds -> {"none", "yes", "no"}],
             tool_results : SUBSET TIds] :
        \A t \in TIds : p.approvals[t] # "none" => t \notin p.tool_results}

EmptyPayload == [approvals |-> NoApprovals, tool_results |-> {}]

\* `not payload.approvals and not payload.tool_results`
IsEmptyPayload(p) == p.approvals = NoApprovals /\ p.tool_results = {}

\* ------------------------------------------------------------------------
\* Chunk codec (frames as the client sees them)
\* ------------------------------------------------------------------------

Chunk(type, id, model, tc, content) ==
    [type |-> type, id |-> id, model |-> model, tc |-> tc, content |-> content]

\* b": keep-alive\n\n" -- an SSE comment line, not a chunk
KeepAlive == Chunk("keepalive", None, None, None, None)

\* encode_done(): the literal "data: [DONE]\n\n" sentinel, not a chunk
encode_done == Chunk("[DONE]", None, None, None, None)

\* ------------------------------------------------------------------------
\* Messages (the runtime's ordered history) and UI messages (the client's
\* flat list)
\* ------------------------------------------------------------------------

Part(type, id) == [type |-> type, tool_call_id |-> id]

UserPromptPart == Part("UserPrompt", None)
TextPart == Part("Text", None)
ToolCallPart(t) == Part("ToolCall", t)
ToolReturnPart(t) == Part("ToolReturn", t)

ModelRequest(parts) == [kind |-> "request", parts |-> parts]
ModelResponse(parts) == [kind |-> "response", parts |-> parts]

\* the parts of message m that have the given type
PartsOf(m, type) == {i \in 1..Len(m.parts) : m.parts[i].type = type}

\* tool call ids a client's flat list may refer to
CallIds == {"t1", "t2"}

\* UIMessage: content is "the message carries text"; toolCalls the ids of
\* the tool-call descriptors of an assistant message; toolCallId the
\* back-reference of a tool message
UIMessage(role, content, toolCalls, toolCallId) ==
    [role |-> role, content |-> content, toolCalls |-> toolCalls,
     toolCallId |-> toolCallId]

UIUser == UIMessage("user", TRUE, <<>>, None)
UIText == UIMessage("assistant", TRUE, <<>>, None)
UICalls(ts) == UIMessage("assistant", FALSE, ts, None)
UITool(t) == UIMessage("tool", TRUE, <<>>, t)

\* ------------------------------------------------------------------------
\* Message Reconciler (TanStackAIAdapter.load_messages; modelled from the
\* specification)
\* ------------------------------------------------------------------------

\* ids of the tool calls declared / of the tool returns carried in L
CallsOf(L) ==
    {t \in CallIds : \E i \in 1..Len(L) : \E j \in 1..Len(L[i].toolCalls) :
        L[i].toolCalls[j] = t}

ReturnsOf(L) ==
    {t \in CallIds : \E i \in 1..Len(L) :
        L[i].role = "tool" /\ L[i].toolCallId = t}

\* a check that only looks for tool returns without a call
UnmatchedReturnsOnly(L) == ~(ReturnsOf(L) \subseteq CallsOf(L))

\* a tool return with no matching tool call, or the other way round
Unmatched(L) == CallsOf(L) # ReturnsOf(L)

\* a user message joins the Request of the contiguous user turn
AppendUser(acc) ==
    LET n == Len(acc) IN
    IF n > 0 /\ acc[n].kind = "request"
             /\ PartsOf(acc[n], "UserPrompt") = 1..Len(acc[n].parts)
    THEN [acc EXCEPT ![n].parts = Append(@, UserPromptPart)]
    ELSE Append(acc, ModelRequest(<<UserPromptPart>>))

\* assistant text joins the Response of the assistant turn, unless that
\* Response holds a tool call: then it becomes its own Response
AppendText(acc) ==
    LET n == Len(acc) IN
    IF n > 0 /\ acc[n].kind = "response" /\ PartsOf(acc[n], "ToolCall") = {}
    THEN [acc EXCEPT ![n].parts = Append(@, TextPart)]
    ELSE Append(acc, ModelResponse(<<TextPart>>))

\* an assistant message declaring tool calls: each call in a Response that
\* is immediately followed by a Request holding only the matching return
RECURSIVE CallPairs(_, _)
CallPairs(ts, text) ==
    IF ts = <<>> THEN <<>>
    ELSE <<ModelResponse(text \o <<ToolCallPart(Head(ts))>>),
           ModelRequest(<<ToolReturnPart(Head(ts))>>)>>
         \o CallPairs(Tail(ts), <<>>)

\* the walk over the flat list; a tool message is consumed where its call
\* stands
RECURSIVE Reconcile(_, _)
Reconcile(L, acc) ==
    IF L = <<>> THEN acc
    ELSE LET m == Head(L) IN
         Reconcile(Tail(L),
            CASE m.role = "user" -> AppendUser(acc)
              [] m.role = "assistant" /\ m.toolCalls = <<>> -> AppendText(acc)
              [] m.role = "assistant" /\ m.toolCalls # <<>> ->
                    acc \o CallPairs(m.toolCalls,
                                     IF m.content THEN <<TextPart>> ELSE <<>>)
              [] OTHER -> acc)

\* a walk that leaves every tool return where its tool message stood
RECURSIVE ReconcileInPlace(_, _)
ReconcileInPlace(L, acc) ==
    IF L = <<>> THEN acc
    ELSE LET m == Head(L) IN
         ReconcileInPlace(Tail(L),
            CASE m.role = "user" -> AppendUser(acc)
              [] m.role = "assistant" /\ m.toolCalls = <<>> -> AppendText(acc)
              [] m.role = "assistant" /\ m.toolCalls # <<>> ->
                    Append(acc, ModelResponse(
                        [i \in 1..Len(m.toolCalls) |->
                            ToolCallPart(m.toolCalls[i])]))
              [] OTHER -> Append(acc, ModelRequest(
                                        <<ToolReturnPart(m.toolCallId)>>)))

\* the outcome of load_messages: ok = FALSE is the reconciliation error
Loaded(ok, messages) == [ok |-> ok, messages |-> messages]

ReconcileError == Loaded(FALSE, <<>>)

load_messages_in_place(L) ==
    IF Unmatched(L) THEN ReconcileError
    ELSE Loaded(TRUE, ReconcileInPlace(L, <<>>))

load_messages(L) ==
    IF Unmatched(L) THEN ReconcileError
    ELSE Loaded(TRUE, Reconcile(L, <<>>))

\* ------------------------------------------------------------------------
\* Request bodies of POST /api/chat
\* ------------------------------------------------------------------------

\* valid = FALSE: a body that is not a JSON object the adapter can parse.
\* run_id None: the body carries no (or an empty) run_id.
\* messages: the flat UI message list of the body (empty: no messages).
Body(valid, rid, model, messages, payload) ==
    [valid |-> valid, run_id |-> rid, model |-> model,
     messages |-> messages, payload |-> payload]

BadBody == Body(FALSE, None, None, <<>>, EmptyPayload)

\* the body's list ends with a new user message: the prompt of the turn
HasPrompt(L) == Len(L) > 0 /\ L[Len(L)].role = "user"

\* the list without that trailing input
Earlier(L) == IF HasPrompt(L) THEN SubSeq(L, 1, Len(L) - 1) ELSE L

\* client-supplied run ids
ClientRunIds == {None, "u1"}

\* one new user message
NewMessage == <<UIUser>>

\* the client's own copy of an earlier conversation, then a new message
Resubmitted == <<UIUser, UICalls(<<"t2">>), UITool("t2"), UIText, UIUser>>

\* a tool return without its call, a tool call without its return
UnmatchedReturn == <<UIUser, UITool("t2"), UIUser>>
UnmatchedCall == <<UIUser, UICalls(<<"t2">>), UIUser>>

\* connection 1 carries the first request of run "u1": any body, with or
\* without a run id and a model override.  Connection 2 carries a later
\* request for the same run: a new message, the client's whole list again,
\* or run_id plus the maps.
Bodies(c) ==
    IF c = 1
    THEN {BadBody}
         \cup {Body(TRUE, r, m, NewMessage, EmptyPayload) :
                 r \in ClientRunIds, m \in BodyModels}
         \cup {Body(TRUE, r, m, <<>>, p) :
                 r \in ClientRunIds, m \in BodyModels, p \in Payloads}
         \cup {Body(TRUE, None, None, L, EmptyPayload) :
                 L \in {UnmatchedReturn, UnmatchedCall}}
    ELSE {Body(TRUE, "u1", None, L, EmptyPayload) :
                 L \in {NewMessage, Resubmitted, UnmatchedReturn,
                         UnmatchedCall}}
         \cup {Body(TRUE, "u1", None, <<>>, p) : p \in Payloads}

\* ------------------------------------------------------------------------
\* State
\* ------------------------------------------------------------------------

VARIABLES
    accepted,    \* per connection: answers (as the client sent them) that
                 \* a turn of this stream has taken up
    pc,          \* per connection: position of chat / stream()
    run_id,      \* per connection: run_id of chat()
    model_name,  \* per connection: model_name of stream()
    cur,         \* per connection: inputs of current_adapter
    todo,        \* per connection: pending calls the turn has yet to resolve
    newdef,      \* per connection: deferred requests the turn ends with
    is_deferred, \* per connection: is_deferred of the turn loop
    waitq,       \* per connection: mailbox object held by the blocked wait
    inner,       \* per connection: frames stream() has yielded
    exc,         \* per connection: message of the exception that left stream()
    turns,       \* per connection: turns handed to the runtime so far
    out,         \* per connection: frames delivered to the client
    queues,      \* ContinuationHub._queues: run id -> mailbox object
    qbuf,        \* content of every mailbox object
    runs,        \* InMemoryRunStore._runs
    agentBuilt,  \* get_agent()'s lru_cache holds the agent
    executed,    \* tool calls whose side-effecting action has run
    pushes,      \* POST /api/continuation calls so far
    lastPost,    \* outcome of the last POST /api/continuation
    last_updated,   \* InMemoryRunStore._last_updated
    settings,       \* run_store_backend, run_store_ttl_minutes, ..max_messages
    _ttl,           \* InMemoryRunStore._ttl, in minutes
    _max_messages,  \* InMemoryRunStore._max_messages
    now,            \* datetime.now(), in minutes
    stOp,           \* the last call of a run store method
    stRet,          \* what that call returned
    flat,           \* a flat UI message list handed to load_messages
    loaded,         \* what load_messages returned for it
    _store,         \* InMemoryArtifactStore._store
    _run_counters,  \* InMemoryArtifactStore._run_counters
    artifact_ids,   \* per run: the artifact ids store() returned, in order
    _artifact_ttl,  \* InMemoryArtifactStore._ttl, in minutes
    artOp,          \* the last call of the artifact store
    artRet,         \* and what it returned
    _lock,          \* ContinuationHub._lock: <<task>> that holds it, or <<>>
    put,            \* per mailbox object: the payloads put into it since
                    \* it was made
    taken,          \* per mailbox object: <<task, payload>> for every
                    \* payload a queue.get() returned since, in order
    timeouts,       \* per task: waits that returned None
    run_store,      \* the table run_store of a PostgresRunStoreAdapter that
                    \* is run side by side with the InMemoryRunStore
    pgRet,          \* what the last call of that adapter returned
    captured_result,  \* captured_result of stream(): the result of the
                      \* AgentRunResultEvent, or None
    usage           \* what the usage provider did when it was called

streamVars ==
    <<pc, run_id, model_name, cur, todo, newdef, is_deferred,
      waitq, inner, exc, turns, out, accepted>>
hubVars == <<queues, qbuf>>
storeVars == <<runs, last_updated>>
envVars == <<agentBuilt, executed, pushes, lastPost>>
clockVars == <<now>>
configVars == <<settings, _ttl, _max_messages>>
callVars == <<stOp, stRet>>
reconcilerVars == <<flat, loaded>>
artifactVars ==
    <<_store, _run_counters, artifact_ids, _artifact_ttl, artOp, artRet>>
hubLogVars == <<_lock, put, taken, timeouts>>
tableVars == <<run_store, pgRet>>
usageVars == <<captured_result, usage>>
\* what the handlers of POST /api/chat and POST /api/continuation leave alone
sideVars ==
    <<clockVars, configVars, callVars, reconcilerVars, artifactVars,
      hubLogVars, tableVars, usageVars>>
vars == <<streamVars, hubVars, storeVars, envVars, sideVars>>

\* mailbox objects: at most one per run in the hub and one per blocked wait
\* are alive at a time
QIds == 1..(Cardinality(RunIds) + Cardinality(Conns))

NoPost == "none"

NoAdapter == [message_history |-> <<>>, hist |-> <<>>, pending |-> {},
              payload |-> EmptyPayload, prompt |-> FALSE, model |-> None,
              messages |-> <<>>, run_id |-> None]

\* ------------------------------------------------------------------------
\* ContinuationHub (backend/continuations.py)
\* ------------------------------------------------------------------------

\* A mailbox object (asyncio.Queue) is alive while the hub maps a run id to
\* it or a blocked queue.get() holds it; 0 is "no mailbox".
HubHas(qs, r) == qs[r] # 0

Alive(qs, wq, q) ==
    \/ \E r \in RunIds : qs[r] = q
    \/ \E c \in Conns : wq[c] = q

\* asyncio.Queue(): a new, empty mailbox object
NewQueue(qs, wq) ==
    CHOOSE q \in QIds :
        /\ ~Alive(qs, wq, q)
        /\ \A q2 \in QIds : ~Alive(qs, wq, q2) => q <= q2

\* _get_queue: self._queues.setdefault(run_id, asyncio.Queue()).
\* Yields the mailbox object and the hub after the call.
GetQueueId(qs, wq, r) == IF HubHas(qs, r) THEN qs[r] ELSE NewQueue(qs, wq)

GetQueueMap(qs, wq, r) ==
    IF HubHas(qs, r) THEN qs ELSE [qs EXCEPT ![r] = NewQueue(qs, wq)]

\* a clear that leaves the mailbox in the map
HubKeep(qs, r) == qs

\* clear: self._queues.pop(run_id, None)
HubClear(qs, r) == [qs EXCEPT ![r] = 0]

\* a mailbox object nothing refers to any more is gone with its content
Collect(qs, wq, qb) ==
    [q \in QIds |-> IF Alive(qs, wq, q) THEN qb[q] ELSE <<>>]

\* ------------------------------------------------------------------------
\* InMemoryRunStore (shared/store.py)
\* ------------------------------------------------------------------------

\* an optional number: <<>> is Python's None, <<n>> the number n
NoInt == <<>>

\* a DeferredToolRequests value is the set of its requests; `None` is the
\* absent value of RunState.pending
NonePending == {ToolReq(None, None)}

\* RunState; present = FALSE stands for "no entry in self._runs"
RunState(messages, pending, model) ==
    [present |-> TRUE, messages |-> messages, pending |-> pending,
     model |-> model]

NoRun == [present |-> FALSE, messages |-> <<>>, pending |-> NonePending,
          model |-> None]

\* an __init__ that falls back to a TTL of one minute
InitTtlDefaulted(ttl_minutes) ==
    IF ttl_minutes # NoInt /\ ttl_minutes[1] > 0 THEN ttl_minutes ELSE <<1>>

\* __init__: `ttl_minutes is not None and ttl_minutes > 0`, else None
InitTtl(ttl_minutes) ==
    IF ttl_minutes # NoInt /\ ttl_minutes[1] > 0 THEN ttl_minutes ELSE NoInt

\* __init__: `max_messages if max_messages and max_messages > 0 else None`
InitMaxMessages(max_messages) ==
    IF max_messages # NoInt /\ max_messages[1] > 0 THEN max_messages
    ELSE NoInt

\* the store object: self._runs and self._last_updated
Store == [runs |-> runs, last_updated |-> last_updated]

EmptyStore == [runs |-> [r \in RunIds |-> NoRun],
               last_updated |-> [r \in RunIds |-> NoInt]]

_touch(s, r) == [s EXCEPT !.last_updated[r] = <<now>>]

Max(a, b) == IF a >= b THEN a ELSE b

\* a cap that keeps the oldest entries
_apply_max_messages_oldest(messages) ==
    IF _max_messages = NoInt THEN messages
    ELSE SubSeq(messages, 1,
                IF Len(messages) < _max_messages[1] THEN Len(messages)
                ELSE _max_messages[1])

\* messages[-self._max_messages :]
_apply_max_messages(messages) ==
    IF _max_messages = NoInt THEN messages
    ELSE SubSeq(messages, Max(1, Len(messages) - _max_messages[1] + 1),
                Len(messages))

\* `now - updated_at > self._ttl`
IsExpired(s, r) ==
    /\ _ttl # NoInt
    /\ s.last_updated[r] # NoInt
    /\ now - s.last_updated[r][1] > _ttl[1]

\* a cleanup that also takes the runs last updated exactly the TTL ago
cleanup_expired_at_ttl(s) ==
    LET expired == {r \in RunIds :
                       /\ _ttl # NoInt
                       /\ s.last_updated[r] # NoInt
                       /\ now - s.last_updated[r][1] >= _ttl[1]}
    IN [store |->
          [runs |-> [r \in RunIds |->
                        IF r \in expired THEN NoRun ELSE s.runs[r]],
           last_updated |-> [r \in RunIds |->
                        IF r \in expired THEN NoInt ELSE s.last_updated[r]]],
        ret |-> Cardinality(expired)]

\* cleanup_expired: the store after the call and the count it returns
cleanup_expired(s) ==
    LET expired == {r \in RunIds : IsExpired(s, r)}
    IN [store |->
          [runs |-> [r \in RunIds |->
                        IF r \in expired THEN NoRun ELSE s.runs[r]],
           last_updated |-> [r \in RunIds |->
                        IF r \in expired THEN NoInt ELSE s.last_updated[r]]],
        ret |-> Cardinality(expired)]

\* a get that counts as an update of the run it returns
get_touching(s, r) ==
    LET c == cleanup_expired(s).store
    IN [store |-> IF c.runs[r].present THEN _touch(c, r) ELSE c,
        ret |-> c.runs[r]]

\* a get that skips the cleanup
get_stale(s, r) == [store |-> s, ret |-> s.runs[r]]

\* get: cleanup_expired(), then self._runs.get(run_id)
get(s, r) ==
    LET c == cleanup_expired(s).store IN [store |-> c, ret |-> c.runs[r]]

upsert(s, r, model) ==
    LET c == cleanup_expired(s).store
    IN _touch(IF ~c.runs[r].present
              THEN [c EXCEPT !.runs[r] = RunState(<<>>, NonePending, model)]
              ELSE IF model # None THEN [c EXCEPT !.runs[r].model = model]
              ELSE c,
              r)

\* a set that leaves the time of the last update as it was
set_untouched(s, r, state) == [s EXCEPT !.runs[r] = state]

\* set: self._runs[run_id] = state, then _touch; no cleanup
set(s, r, state) == _touch([s EXCEPT !.runs[r] = state], r)

\* a set_messages that stores the list without its oldest message
set_messages_tail(s, r, messages, model) ==
    [upsert(s, r, model) EXCEPT
        !.runs[r].messages =
            IF messages = <<>> THEN <<>> ELSE Tail(messages)]

set_messages(s, r, messages, model) ==
    [upsert(s, r, model) EXCEPT
        !.runs[r].messages = _apply_max_messages(messages)]

\* a set_pending that upserts but drops the assignment of pending
set_pending_lost(s, r, pending, model) == upsert(s, r, model)

\* a set_pending that adds the requests to those already pending
set_pending_merged(s, r, pending, model) ==
    [upsert(s, r, model) EXCEPT
        !.runs[r].pending = IF pending = NonePending \/ @ = NonePending
                            THEN pending
                            ELSE @ \cup pending]

set_pending(s, r, pending, model) ==
    [upsert(s, r, model) EXCEPT !.runs[r].pending = pending]

\* a clear that pops the run from self._runs only
clear_runs_only(s, r) ==
    [runs |-> [s.runs EXCEPT ![r] = NoRun], last_updated |-> s.last_updated]

\* a clear that forgets every run
clear_all(s, r) == EmptyStore

\* clear: pop(run_id, None) on both maps
clear(s, r) ==
    [runs |-> [s.runs EXCEPT ![r] = NoRun],
     last_updated |-> [s.last_updated EXCEPT ![r] = NoInt]]

\* ------------------------------------------------------------------------
\* PostgresRunStoreAdapter (backend/store/postgres_run_store.py).  A row of
\* run_store is runs[r] with last_updated[r] as its updated_at; NOW() and
\* datetime.now() are the one clock.  Each method is taken as one step of
\* the one process that uses the table.
\* ------------------------------------------------------------------------

\* _is_expired: `now - updated_at > self._ttl`, False without a TTL
_is_expired(updated_at) ==
    /\ _ttl # NoInt
    /\ updated_at # NoInt
    /\ now - updated_at[1] > _ttl[1]

\* cleanup_expired: DELETE ... WHERE updated_at < NOW() - $1 minutes; the
\* count is read off the command tag
pg_cleanup_expired(s) ==
    IF _ttl = NoInt THEN [store |-> s, ret |-> 0]
    ELSE LET deleted == {r \in RunIds :
                            /\ s.runs[r].present
                            /\ s.last_updated[r][1] < now - _ttl[1]}
         IN [store |->
               [runs |-> [r \in RunIds |->
                            IF r \in deleted THEN NoRun ELSE s.runs[r]],
                last_updated |-> [r \in RunIds |->
                            IF r \in deleted THEN NoInt
                            ELSE s.last_updated[r]]],
             ret |-> Cardinality(deleted)]

\* get: SELECT the row; an expired row is deleted and None returned
pg_get(s, r) ==
    IF ~s.runs[r].present THEN [store |-> s, ret |-> NoRun]
    ELSE IF _is_expired(s.last_updated[r])
    THEN [store |-> clear(s, r), ret |-> NoRun]
    ELSE [store |-> s, ret |-> s.runs[r]]

\* INSERT ... ON CONFLICT (run_id) DO UPDATE SET model = COALESCE(...),
\* <column> = EXCLUDED.<column>, updated_at = NOW()
pg_upsert(s, r, inserted, column, value) ==
    LET row == s.runs[r] IN
    [runs |-> [s.runs EXCEPT ![r] =
                  IF ~row.present THEN inserted
                  ELSE [[row EXCEPT !.model = IF inserted.model # None
                                              THEN inserted.model ELSE @]
                            EXCEPT ![column] = value]],
     last_updated |-> [s.last_updated EXCEPT ![r] = <<now>>]]

\* set_messages: cleanup_expired(), trim, _UPSERT_MESSAGES_SQL
pg_set_messages(s, r, messages, model) ==
    LET trimmed == _apply_max_messages(messages) IN
    pg_upsert(pg_cleanup_expired(s).store, r,
              RunState(trimmed, NonePending, model), "messages", trimmed)

\* set_pending: cleanup_expired(), _UPSERT_PENDING_SQL
pg_set_pending(s, r, pending, model) ==
    pg_upsert(pg_cleanup_expired(s).store, r,
              RunState(<<>>, pending, model), "pending", pending)

\* ------------------------------------------------------------------------
\* The usage provider of stream() (backend/main.py _usage_from_result)
\* ------------------------------------------------------------------------

\* the largest token count of a usage object
MaxTokens == 2

\* what usage_data holds under a name: no such key or attribute, the
\* value None, or a number
Absent == [key |-> FALSE, none |-> FALSE, n |-> 0]
NoneValue == [key |-> TRUE, none |-> TRUE, n |-> 0]
Tokens(n) == [key |-> TRUE, none |-> FALSE, n |-> n]

PromptNames ==
    <<"prompt_tokens", "promptTokens", "input_tokens", "inputTokens">>
CompletionNames ==
    <<"completion_tokens", "completionTokens", "output_tokens",
      "outputTokens">>
TotalNames == <<"total_tokens", "totalTokens">>

UsageNames ==
    {PromptNames[i] : i \in 1..Len(PromptNames)}
    \cup {CompletionNames[i] : i \in 1..Len(CompletionNames)}
    \cup {TotalNames[i] : i \in 1..Len(TotalNames)}

\* captured_result: None, or a result whose usage() raises or returns
\* usage_data (a dict or an object) with the given keys / attributes
NoResult == [result |-> FALSE, raises |-> FALSE, dict |-> FALSE,
             data |-> [name \in UsageNames |-> Absent]]

Result(raises, dict, data) ==
    [result |-> TRUE, raises |-> raises, dict |-> dict, data |-> data]

\* outcomes of a call of the provider: not called yet; None (usage is
\* omitted); the usage dict; an exception that leaves the provider
UsageOutcome(outcome, prompt, completion, total) ==
    [outcome |-> outcome, promptTokens |-> prompt,
     completionTokens |-> completion, totalTokens |-> total]

NotCalled == UsageOutcome("not called", 0, 0, 0)
Omitted == UsageOutcome("omitted", 0, 0, 0)
Raised == UsageOutcome("raised", 0, 0, 0)

\* `not usage_data`: an empty dict is falsy, an object is not
Falsy(r) == r.dict /\ \A name \in UsageNames : ~r.data[name].key

\* _get_usage_value(*names): the value under the first name that is a key
\* (or an attribute) of usage_data, through int(); None if there is none
_get_usage_value(data, names) ==
    LET found == {i \in 1..Len(names) : data[names[i]].key}
    IN IF found = {} THEN Absent
       ELSE data[names[CHOOSE i \in found : \A j \in found : i <= j]]

\* _usage_from_result(result); int(None) raises TypeError, and only the
\* call of result.usage() is inside a try block
_usage_from_result(r) ==
    IF ~r.result THEN Omitted
    ELSE IF r.raises THEN Omitted
    ELSE IF Falsy(r) THEN Omitted
    ELSE LET prompt_tokens == _get_usage_value(r.data, PromptNames)
             completion_tokens == _get_usage_value(r.data, CompletionNames)
             total_tokens == _get_usage_value(r.data, TotalNames)
         IN IF prompt_tokens.none \/ completion_tokens.none
               \/ total_tokens.none
            THEN Raised
            ELSE IF ~prompt_tokens.key \/ ~completion_tokens.key
            THEN Omitted
            ELSE UsageOutcome("usage", prompt_tokens.n, completion_tokens.n,
                              IF ~total_tokens.key
                              THEN prompt_tokens.n + completion_tokens.n
                              ELSE total_tokens.n)

\* ------------------------------------------------------------------------
\* Initial states
\* ------------------------------------------------------------------------

\* no connection is open, the hub is empty, nothing has been asked
ChatInit ==
    /\ pc = [c \in Conns |-> "idle"]
    /\ run_id = [c \in Conns |-> None]
    /\ model_name = [c \in Conns |-> None]
    /\ cur = [c \in Conns |-> NoAdapter]
    /\ todo = [c \in Conns |-> {}]
    /\ newdef = [c \in Conns |-> {}]
    /\ is_deferred = [c \in Conns |-> FALSE]
    /\ waitq = [c \in Conns |-> 0]
    /\ inner = [c \in Conns |-> <<>>]
    /\ exc = [c \in Conns |-> None]
    /\ turns = [c \in Conns |-> 0]
    /\ out = [c \in Conns |-> <<>>]
    /\ accepted = [c \in Conns |-> {}]
    /\ queues = [r \in RunIds |-> 0]
    /\ qbuf = [q \in QIds |-> <<>>]
    /\ agentBuilt = FALSE
    /\ executed = {}
    /\ pushes = 0
    /\ lastPost = NoPost
    /\ _lock = NoInt
    /\ put = [q \in QIds |-> <<>>]
    /\ taken = [q \in QIds |-> <<>>]
    /\ timeouts = [c \in Conns |-> 0]
    /\ captured_result = NoResult
    /\ usage = NotCalled

\* no method of the run store has been called
NoCall == [name |-> None, run_id |-> None, messages |-> <<>>,
           pending |-> NonePending, model |-> None]

\* what a store method returns: a RunState (or None), or a count
Return(state, count) == [state |-> state, count |-> count]

\* get_run_store(): InMemoryRunStore(ttl_minutes=..., max_messages=...) or
\* PostgresRunStoreAdapter(url, ttl_minutes=..., max_messages=...)
StoreInit(backend, ttl_minutes, max_messages) ==
    /\ settings = [run_store_backend |-> backend,
                   run_store_ttl_minutes |-> ttl_minutes,
                   run_store_max_messages |-> max_messages]
    /\ runs = EmptyStore.runs
    /\ last_updated = EmptyStore.last_updated
    /\ _ttl = InitTtl(ttl_minutes)
    /\ _max_messages = InitMaxMessages(max_messages)
    /\ stOp = NoCall
    /\ stRet = Return(NoRun, 0)
    /\ run_store = EmptyStore
    /\ pgRet = Return(NoRun, 0)

\* nothing has been handed to load_messages
ReconcilerIdle ==
    /\ flat = <<>>
    /\ loaded = <<>>

\* ------------------------------------------------------------------------
\* InMemoryArtifactStore (backend/store/artifact_store.py)
\* ------------------------------------------------------------------------

\* run ids as strings of characters: the empty one, a short one, and one
\* of more than eight characters that begins with the short one followed
\* by "::"
ArtifactRunIds ==
    {<<>>,
     <<"r", "u", "n">>,
     <<"r", "u", "n", ":", ":", "0", "0", "0", "1">>}

\* run_id[:8]
PrefixLen == 8

\* InMemoryArtifactStore.__init__: ttl_minutes: int = 30
DefaultArtifactTtl == 30

\* str(counter)
RECURSIVE Digits(_)
Digits(n) ==
    LET digit(d) == <<"0", "1", "2", "3", "4", "5", "6", "7", "8", "9">>[d + 1]
    IN IF n < 10 THEN <<digit(n)>>
       ELSE Digits(n \div 10) \o <<digit(n % 10)>>

\* f"{run_id}::{artifact_id}"
_composite_key(r, artifact_id) == r \o <<":", ":">> \o artifact_id

\* f"a_{run_prefix}_{counter}"
ArtifactId(run_prefix, counter) ==
    <<"a", "_">> \o run_prefix \o <<"_">> \o Digits(counter)

\* the prefix of a run id that is empty
UnknownPrefix == <<"u", "n", "k", "n", "o", "w", "n">>

\* the store object: self._store (the artifacts, each under its composite
\* key) and self._run_counters (0 stands for "no entry")
ArtifactStore == [_store |-> _store, _run_counters |-> _run_counters]

\* an id numbered by the artifacts the run has in the store
_generate_artifact_id_by_size(self, r) ==
    LET counter == Cardinality({a \in self._store : a.run_id = r}) + 1
    IN [self |-> [self EXCEPT !._run_counters[r] = counter],
        id |-> ArtifactId(IF r # <<>>
                          THEN SubSeq(r, 1, IF Len(r) < PrefixLen THEN Len(r)
                                            ELSE PrefixLen)
                          ELSE UnknownPrefix,
                          counter)]

\* _generate_artifact_id: the store with the counter advanced, and the id
_generate_artifact_id(self, r) ==
    LET counter == self._run_counters[r] + 1
        run_prefix == IF r # <<>>
                      THEN SubSeq(r, 1, IF Len(r) < PrefixLen THEN Len(r)
                                        ELSE PrefixLen)
                      ELSE UnknownPrefix
    IN [self |-> [self EXCEPT !._run_counters[r] = counter],
        id |-> ArtifactId(run_prefix, counter)]

\* Artifact(id=..., run_id=..., ...); the class sets created_at
Artifact(id, r, created_at) ==
    [key |-> _composite_key(r, id), id |-> id, run_id |-> r,
     created_at |-> created_at]

\* `now - artifact.created_at > self._ttl`
ArtifactExpired(a) == now - a.created_at > _artifact_ttl

\* a cleanup that keeps an artifact until its age is twice the TTL
_cleanup_late(self) ==
    LET expired == {a \in self._store :
                       now - a.created_at > 2 * _artifact_ttl}
    IN [self |-> [self EXCEPT !._store = @ \ expired],
        ret |-> Cardinality(expired)]

\* _cleanup_expired: the store without the expired artifacts, and their
\* number; the counters are left alone
_cleanup_expired(self) ==
    LET expired == {a \in self._store : ArtifactExpired(a)}
    IN [self |-> [self EXCEPT !._store = @ \ expired],
        ret |-> Cardinality(expired)]

NoArtifact == [key |-> <<>>, id |-> <<>>, run_id |-> <<>>, created_at |-> -1]

ArtifactCall(name, r, artifact_id) ==
    [name |-> name, run_id |-> r, artifact_id |-> artifact_id]

\* what a call returns: an artifact (or None), a list of ids, a count
ArtifactReturn(artifact, ids, count) ==
    [artifact |-> artifact, ids |-> ids, count |-> count]

\* InMemoryArtifactStore(ttl_minutes=...)
ArtifactInit(ttl_minutes) ==
    /\ _store = {}
    /\ _run_counters = [r \in ArtifactRunIds |-> 0]
    /\ artifact_ids = [r \in ArtifactRunIds |-> <<>>]
    /\ _artifact_ttl = ttl_minutes
    /\ artOp = ArtifactCall(None, <<>>, <<>>)
    /\ artRet = ArtifactReturn(NoArtifact, {}, 0)

\* the backend as it starts: the run store without ttl and cap
Init ==
    /\ ChatInit
    /\ StoreInit("memory", NoInt, NoInt)
    /\ now = 0
    /\ ReconcilerIdle
    /\ ArtifactInit(DefaultArtifactTtl)

\* ------------------------------------------------------------------------
\* Adapter (tanstack_pydantic_ai.adapter; modelled from the specification)
\* ------------------------------------------------------------------------

PendingSet(st) ==
    IF st.present /\ st.pending # NonePending THEN st.pending ELSE {}

\* a from_request that resolves the history from the client's list even
\* when the store holds one
from_request_client_first(b, rs) ==
    LET st == get(rs, b.run_id).ret
        h == IF Earlier(b.messages) # <<>> \/ ~st.present
             THEN load_messages(Earlier(b.messages)).messages
             ELSE st.messages
    IN
    [message_history |-> h,
     hist |-> h,
     pending |-> PendingSet(st),
     payload |-> b.payload,
     prompt |-> HasPrompt(b.messages),
     model |-> b.model,
     messages |-> b.messages,
     run_id |-> b.run_id]

\* TanStackAIAdapter.from_request: the stored history is authoritative, the
\* body only contributes new trailing input and the approvals / results;
\* without stored history the reconciled client list is the history
from_request(b, rs) ==
    LET st == get(rs, b.run_id).ret
        h == IF st.present THEN st.messages
             ELSE load_messages(Earlier(b.messages)).messages
    IN
    [message_history |-> h,
     hist |-> h,
     pending |-> PendingSet(st),
     payload |-> b.payload,
     prompt |-> HasPrompt(b.messages),
     model |-> b.model,
     messages |-> b.messages,
     run_id |-> b.run_id]

\* the continuation answers exactly the pending requests, each through the
\* map that fits its kind
Answers(pl, P) ==
    /\ \A q \in P : IF q.kind = "approval"
                    THEN pl.approvals[q.id] # "none"
                    ELSE q.id \in pl.tool_results
    /\ \A t \in TIds :
        /\ pl.approvals[t] # "none" => ToolReq(t, "approval") \in P
        /\ t \in pl.tool_results => ToolReq(t, "external") \in P

\* the runtime accepts the adapter's inputs: a fresh turn needs a prompt
\* and no unresolved call, a resumed turn an answer for every pending call
InputsOk(a) ==
    IF IsEmptyPayload(a.payload)
    THEN a.pending = {} /\ a.prompt
    ELSE a.pending # {} /\ Answers(a.payload, a.pending)

\* the request the runtime handles next
PickReq(S) == CHOOSE q \in S : TRUE

\* a wrapper that reports a generic message instead of the exception's
ErrorTailGeneric(rid, model, msg) ==
    <<Chunk("error", rid, model, None, "error"),
      Chunk("done", rid, model, None, "error"),
      encode_done>>

\* stream_with_error_handling, on an exception of the wrapped stream: an
\* error chunk with the exception's message, a done chunk, the sentinel
ErrorTail(rid, model, msg) ==
    <<Chunk("error", rid, model, None, msg),
      Chunk("done", rid, model, None, "error"),
      encode_done>>

\* ------------------------------------------------------------------------
\* chat() and chat.stream() (backend/main.py)
\* ------------------------------------------------------------------------

\* model_name = adapter.run_input.model or settings.llm_model or "unknown"
ModelNameOf(b) == IF b.model # None THEN b.model ELSE LlmModel

\* a continuation body that turns every approval into a denial
ContinuationBodyDenying(rid, p) ==
    Body(TRUE, rid, None, <<>>,
         [p EXCEPT !.approvals =
            [t \in TIds |-> IF p.approvals[t] = "none" THEN "none" ELSE "no"]])

\* a continuation body that turns every denial into an approval
ContinuationBodyApproving(rid, p) ==
    Body(TRUE, rid, None, <<>>,
         [p EXCEPT !.approvals =
            [t \in TIds |-> IF p.approvals[t] = "none" THEN "none" ELSE "yes"]])

\* continuation_body built from a hub payload
ContinuationBody(rid, p) == Body(TRUE, rid, None, <<>>, p)

\* a loop body without the done filter
ForwardAll(chunk, deferred) == <<chunk>>

\* a done filter that ignores is_deferred
ForwardNoDone(chunk, deferred) ==
    IF chunk.type = "done" THEN <<>> ELSE <<chunk>>

\* `if chunk.type == "done" and is_deferred: continue`, else forward
Forward(chunk, deferred) ==
    IF chunk.type = "done" /\ deferred THEN <<>> ELSE <<chunk>>

\* what a resumption of the suspended stream c with payload p runs on:
\* the adapter's inputs and the run id / model name its chunks will carry.
\* Over the hub the still-open stream builds current_adapter from the
\* continuation body and keeps the model_name of its first request ...
PushResume(c, p) ==
    [adapter |-> from_request(ContinuationBody(run_id[c], p), Store),
     id |-> run_id[c],
     model |-> model_name[c]]

\* ... a new POST /api/chat carrying run_id and the maps builds its adapter
\* from that body and derives model_name from it
RequestResume(c, p) ==
    LET b == Body(TRUE, run_id[c], None, <<>>, p)
    IN [adapter |-> from_request(b, Store),
        id |-> b.run_id,
        model |-> ModelNameOf(b)]

\* the wait loop times out any number of times; a run of consecutive
\* keep-alive lines is recorded as one
KeepAliveFrames(s) ==
    IF Len(s) > 0 /\ s[Len(s)] = KeepAlive THEN <<>> ELSE <<KeepAlive>>

\* positions of stream() inside its try block
TryPcs == {"resolve", "model", "result", "wait", "blocked", "finish"}

\* a wrapper that holds the frames back and passes on the latest first
EmitLatestFirst(c, frames) ==
    /\ inner' = [inner EXCEPT ![c] = @ \o frames]
    /\ out' = [out EXCEPT ![c] = frames \o @]

\* stream() yields frames; the wrapper passes each one on as it comes
Emit(c, frames) ==
    /\ inner' = [inner EXCEPT ![c] = @ \o frames]
    /\ out' = [out EXCEPT ![c] = @ \o frames]

\* a chunk of the event stream: it carries the run id of the adapter (the
\* one of the body it was built from) and stream()'s model_name
RunChunk(c, type, tc, content) ==
    Chunk(type, cur[c].run_id, model_name[c], tc, content)

\* the generator's frame is gone once the stream is closed: its locals are
\* dead and are reset
Release(c) ==
    /\ model_name' = [model_name EXCEPT ![c] = None]
    /\ cur' = [cur EXCEPT ![c] = NoAdapter]
    /\ todo' = [todo EXCEPT ![c] = {}]
    /\ newdef' = [newdef EXCEPT ![c] = {}]
    /\ is_deferred' = [is_deferred EXCEPT ![c] = FALSE]
    /\ waitq' = [waitq EXCEPT ![c] = 0]

\* stream() yields the frames pre and then raises: the exception leaves
\* the generator towards the wrapper
Raise(c, pre, msg) ==
    /\ Emit(c, pre)
    /\ exc' = [exc EXCEPT ![c] = msg]
    /\ pc' = [pc EXCEPT ![c] = "raised"]

\* an exception inside the try block: `finally` clears the hub entry first
Fail(c, pre, msg) ==
    /\ queues' = HubClear(queues, run_id[c])
    /\ qbuf' = Collect(HubClear(queues, run_id[c]), waitq, qbuf)
    /\ Raise(c, pre, msg)
    /\ Release(c)
    /\ UNCHANGED <<run_id, turns>>

\* a wrapper call that passes stream()'s model_name, which does not exist
\* before the adapter is built
ErrorHandlingModelName(c, msg) == ErrorTail(run_id[c], model_name[c], msg)

\* a wrapper call that is handed a run id of its own
ErrorHandlingMinted(c, msg) == ErrorTail(MintedId(c), LlmModel, msg)

\* chat(): StreamingResponse(TanStackAIAdapter.stream_with_error_handling(
\*     stream(), model=settings.llm_model, run_id=run_id))
ErrorHandling(c, msg) == ErrorTail(run_id[c], LlmModel, msg)

\* stream_with_error_handling catches the exception of the wrapped stream
\* and answers with the error tail; it does not re-raise
stream_with_error_handling(c) ==
    /\ pc[c] = "raised"
    /\ out' = [out EXCEPT ![c] = @ \o ErrorHandling(c, exc[c])]
    /\ pc' = [pc EXCEPT ![c] = "closed"]
    /\ UNCHANGED <<run_id, model_name, cur, todo, newdef, is_deferred, waitq,
                   inner, exc, turns, accepted>>
    /\ UNCHANGED <<hubVars, storeVars, envVars>>
    /\ UNCHANGED sideVars

\* top of the turn loop with a freshly built current_adapter a, and start
\* of its run_stream_native(): the runtime checks its inputs and takes
\* them up, or raises.  wq and qb are the held mailboxes and the mailbox
\* contents as the caller leaves them.
TurnStart(c, rid, mn, a, p, wq, qb) ==
    /\ turns' = [turns EXCEPT ![c] = @ + 1]
    /\ \/ /\ InputsOk(a)
          /\ model_name' = [model_name EXCEPT ![c] = mn]
          /\ cur' = [cur EXCEPT ![c] =
                [a EXCEPT !.hist =
                    IF a.prompt
                    THEN Append(@, ModelRequest(<<UserPromptPart>>))
                    ELSE @]]
          /\ is_deferred' = [is_deferred EXCEPT ![c] = FALSE]
          /\ todo' = [todo EXCEPT ![c] = a.pending]
          /\ newdef' = [newdef EXCEPT ![c] = {}]
          /\ accepted' = [accepted EXCEPT ![c] = @
                \cup {<<t, p.approvals[t]>> :
                        t \in {u \in TIds : p.approvals[u] # "none"}}
                \cup {<<t, "result">> : t \in p.tool_results}]
          /\ pc' = [pc EXCEPT ![c] =
                      IF a.pending = {} THEN "model" ELSE "resolve"]
          /\ qbuf' = Collect(queues, wq, qb)
          /\ UNCHANGED <<inner, exc, out, queues>>
       \/ /\ ~InputsOk(a)
          /\ queues' = HubClear(queues, rid)
          /\ qbuf' = Collect(HubClear(queues, rid), wq, qb)
          /\ Raise(c, <<>>, "input")
          /\ model_name' = [model_name EXCEPT ![c] = None]
          /\ cur' = [cur EXCEPT ![c] = NoAdapter]
          /\ todo' = [todo EXCEPT ![c] = {}]
          /\ newdef' = [newdef EXCEPT ![c] = {}]
          /\ is_deferred' = [is_deferred EXCEPT ![c] = FALSE]
          /\ UNCHANGED accepted

\* chat(): parse the body, take or mint the run id, write it back; then
\* stream() up to its first turn: get_agent, get_db_connection,
\* from_request, model_name
chat(c, b) ==
    /\ pc[c] = "idle"
    /\ LET rid == IF b.valid /\ b.run_id # None THEN b.run_id ELSE MintedId(c)
           bd == IF b.valid THEN [b EXCEPT !.run_id = rid] ELSE b
           ConstructionFailure(msg) ==
               /\ Raise(c, <<>>, msg)
               /\ UNCHANGED <<model_name, cur, todo, newdef, is_deferred,
                              turns, accepted, queues, qbuf>>
       IN /\ run_id' = [run_id EXCEPT ![c] = rid]
          /\ \/ /\ ~agentBuilt
                /\ ConstructionFailure("agent")
                /\ UNCHANGED agentBuilt
             \/ /\ agentBuilt' = TRUE
                /\ \/ ConstructionFailure("db")
                   \/ /\ ~bd.valid
                      /\ ConstructionFailure("body")
                   \/ /\ bd.valid
                      /\ ~load_messages(bd.messages).ok
                      /\ ConstructionFailure("reconcile")
                   \/ /\ bd.valid
                      /\ load_messages(bd.messages).ok
                      /\ TurnStart(c, rid, ModelNameOf(bd),
                                   from_request(bd, Store), bd.payload,
                                   waitq, qbuf)
    /\ UNCHANGED waitq
    /\ UNCHANGED <<storeVars, executed, pushes, lastPost>>
    /\ UNCHANGED sideVars

\* the runtime resolves one pending call of the suspended turn: an approved
\* call runs its tool (which returns, raises CallDeferred, or fails), a
\* denied call does not run, a client-executed call takes the client's result
ResolveTool(c) ==
    /\ pc[c] = "resolve"
    /\ todo[c] # {}
    /\ LET q == PickReq(todo[c])
           rest == todo[c] \ {q}
           ap == cur[c].payload.approvals[q.id]
           next(nd) == IF rest # {} THEN "resolve"
                       ELSE IF nd # {} THEN "result" ELSE "model"
           Returned(content) ==
               /\ Emit(c, <<RunChunk(c, "tool_result", q.id, content)>>)
               /\ cur' = [cur EXCEPT ![c].hist =
                            Append(@, ModelRequest(<<ToolReturnPart(q.id)>>))]
               /\ todo' = [todo EXCEPT ![c] = rest]
               /\ pc' = [pc EXCEPT ![c] = next(newdef[c])]
               /\ UNCHANGED <<run_id, model_name, newdef, is_deferred, waitq,
                              exc, turns>>
               /\ UNCHANGED hubVars
       IN IF q.kind = "approval" /\ ap = "yes"
          THEN /\ executed' = executed \cup {<<q.id, c>>}
               /\ \/ Returned("ok")
                  \/ /\ newdef' = [newdef EXCEPT
                                    ![c] = @ \cup {ToolReq(q.id, "external")}]
                     /\ todo' = [todo EXCEPT ![c] = rest]
                     /\ pc' = [pc EXCEPT ![c] =
                                 next(newdef[c] \cup {ToolReq(q.id, "external")})]
                     /\ UNCHANGED <<run_id, model_name, cur, is_deferred,
                                    waitq, inner, exc, turns, out>>
                     /\ UNCHANGED hubVars
                  \/ Fail(c, <<>>, "tool")
          ELSE /\ Returned(IF q.kind = "approval" THEN "denied" ELSE "client")
               /\ UNCHANGED executed
    /\ UNCHANGED <<accepted, storeVars, agentBuilt, pushes, lastPost>>
    /\ UNCHANGED sideVars

\* tool call ids are minted by the model provider and never repeat: the
\* ids some stream has shown in a tool_call chunk are used up
MintedCalls ==
    {t \in TIds : \E c \in Conns : \E i \in 1..Len(out[c]) :
        out[c][i].type = "tool_call" /\ out[c][i].tc = t}

\* the model's step: it fails at once, or streams text and then fails,
\* gives a plain answer, or decides on tool calls that are deferred
\* (approval-gated or client-executed)
ModelStep(c) ==
    /\ pc[c] = "model"
    /\ LET content == RunChunk(c, "content", None, "text")
           Ends(calls) ==
               /\ cur' = [cur EXCEPT ![c].hist =
                            Append(@, ModelResponse(<<TextPart>> \o
                                SelectSeq(<<ToolCallPart("t1")>>,
                                    LAMBDA k : k.tool_call_id \in calls)))]
               /\ newdef' = [newdef EXCEPT
                               ![c] = {ToolReq(t, RequestedKind(t)) : t \in calls}]
               /\ Emit(c, <<content>> \o
                        SelectSeq(<<RunChunk(c, "tool_call", "t1", None)>>,
                                  LAMBDA k : k.tc \in calls))
               /\ pc' = [pc EXCEPT ![c] = "result"]
               /\ UNCHANGED <<run_id, model_name, todo, is_deferred, waitq,
                              exc, turns>>
               /\ UNCHANGED hubVars
       IN \/ Fail(c, <<>>, "boom")
          \/ Fail(c, <<content>>, "boom")
          \/ Ends({})
          \/ \E t \in TIds \ MintedCalls : Ends({t})
    /\ UNCHANGED <<accepted, storeVars, envVars>>
    /\ UNCHANGED sideVars

AllReqs == <<ToolReq("t1", "approval"), ToolReq("t1", "external")>>

\* one approval-requested (approval-gated) or tool-input-available
\* (client-executed) chunk per deferred request
Announcements(c, S) ==
    LET qs == SelectSeq(AllReqs, LAMBDA q : q \in S)
    IN [i \in 1..Len(qs) |->
          RunChunk(c, IF qs[i].kind = "approval" THEN "approval-requested"
                      ELSE "tool-input-available", qs[i].id, None)]

\* the AgentRunResultEvent passes capturing_native_events: is_deferred is
\* set from its output and the adapter persists the turn (set_messages, and
\* set_pending with the deferred requests or None); the transformer
\* announces the deferred requests and ends the turn with its done chunk
\* (which it may or may not yield after a deferred result); every chunk
\* goes through the done filter; then `if not is_deferred: break`
TurnResult(c) ==
    /\ pc[c] = "result"
    /\ LET deferred == newdef[c] # {}
       IN /\ is_deferred' = [is_deferred EXCEPT ![c] = deferred]
          /\ LET s == set_pending(
                         set_messages(Store, cur[c].run_id, cur[c].hist,
                                      cur[c].model),
                         cur[c].run_id,
                         IF deferred THEN newdef[c] ELSE NonePending,
                         cur[c].model)
             IN /\ runs' = s.runs
                /\ last_updated' = s.last_updated
          /\ \E yielded \in IF deferred THEN BOOLEAN ELSE {TRUE} :
                Emit(c, Announcements(c, newdef[c])
                        \o IF yielded
                           THEN Forward(RunChunk(c, "done", None, "stop"),
                                        deferred)
                           ELSE <<>>)
          /\ pc' = [pc EXCEPT ![c] = IF deferred THEN "wait" ELSE "finish"]
    /\ UNCHANGED <<run_id, model_name, cur, todo, newdef, waitq, exc, turns,
                   accepted>>
    /\ UNCHANGED <<hubVars, envVars>>
    /\ UNCHANGED sideVars

\* an end of stream() that yields a done chunk of its own before the
\* sentinel
FinishWithDone(c) ==
    /\ pc[c] = "finish"
    /\ queues' = HubClear(queues, run_id[c])
    /\ qbuf' = Collect(HubClear(queues, run_id[c]), waitq, qbuf)
    /\ Emit(c, <<RunChunk(c, "done", None, "stop"), encode_done>>)
    /\ pc' = [pc EXCEPT ![c] = "closed"]
    /\ Release(c)
    /\ UNCHANGED <<run_id, exc, turns, accepted>>
    /\ UNCHANGED <<storeVars, envVars>>
    /\ UNCHANGED sideVars

\* after `break`: `finally` clears the hub entry, then encode_done()
Finish(c) ==
    /\ pc[c] = "finish"
    /\ queues' = HubClear(queues, run_id[c])
    /\ qbuf' = Collect(HubClear(queues, run_id[c]), waitq, qbuf)
    /\ Emit(c, <<encode_done>>)
    /\ pc' = [pc EXCEPT ![c] = "closed"]
    /\ Release(c)
    /\ UNCHANGED <<run_id, exc, turns, accepted>>
    /\ UNCHANGED <<storeVars, envVars>>
    /\ UNCHANGED sideVars

\* the wait loop took payload p from the mailbox: an empty payload is
\* dropped (`continue`), anything else becomes the continuation body of a
\* new current_adapter and the turn loop goes round
Consume(c, p, wq, qb) ==
    IF IsEmptyPayload(p)
    THEN /\ pc' = [pc EXCEPT ![c] = "wait"]
         /\ qbuf' = Collect(queues, wq, qb)
         /\ UNCHANGED <<model_name, cur, is_deferred, todo, newdef, accepted,
                        inner, exc, turns, out, queues>>
    ELSE TurnStart(c, run_id[c], model_name[c],
                   from_request(ContinuationBody(run_id[c], p), Store), p,
                   wq, qb)

\* continuation_hub.wait(run_id, timeout): _get_queue, then queue.get()
\* returns at once when the mailbox holds a payload, else the task blocks
WaitCall(c) ==
    /\ pc[c] = "wait"
    /\ LET q == GetQueueId(queues, waitq, run_id[c])
       IN IF qbuf[q] # <<>>
          THEN /\ Consume(c, Head(qbuf[q]), waitq, [qbuf EXCEPT ![q] = Tail(@)])
               /\ UNCHANGED waitq
          ELSE /\ queues' = GetQueueMap(queues, waitq, run_id[c])
               /\ pc' = [pc EXCEPT ![c] = "blocked"]
               /\ waitq' = [waitq EXCEPT ![c] = q]
               /\ UNCHANGED <<qbuf, model_name, cur, is_deferred, todo,
                              newdef, accepted, inner, exc, turns, out>>
    /\ UNCHANGED run_id
    /\ UNCHANGED <<storeVars, envVars>>
    /\ UNCHANGED sideVars

\* a payload reaches the blocked queue.get() of the mailbox object held
WaitDeliver(c) ==
    /\ pc[c] = "blocked"
    /\ qbuf[waitq[c]] # <<>>
    /\ Consume(c, Head(qbuf[waitq[c]]), [waitq EXCEPT ![c] = 0],
               [qbuf EXCEPT ![waitq[c]] = Tail(@)])
    /\ waitq' = [waitq EXCEPT ![c] = 0]
    /\ UNCHANGED run_id
    /\ UNCHANGED <<storeVars, envVars>>
    /\ UNCHANGED sideVars

\* asyncio.TimeoutError after KEEPALIVE_INTERVAL_SECONDS: wait returns None,
\* the loop yields the keep-alive comment line and waits again
WaitTimeout(c) ==
    /\ pc[c] = "blocked"
    /\ qbuf[waitq[c]] = <<>>
    /\ Emit(c, KeepAliveFrames(out[c]))
    /\ pc' = [pc EXCEPT ![c] = "wait"]
    /\ waitq' = [waitq EXCEPT ![c] = 0]
    /\ UNCHANGED <<run_id, model_name, cur, todo, newdef, is_deferred, exc,
                   turns, accepted>>
    /\ UNCHANGED <<hubVars, storeVars, envVars>>
    /\ UNCHANGED sideVars

\* the client closes the connection: the generator is closed where it is
\* suspended, inside the try block `finally` still clears the hub entry,
\* nothing more is sent
Cancel(c) ==
    /\ pc[c] \in TryPcs \cup {"raised"}
    /\ queues' = IF pc[c] \in TryPcs THEN HubClear(queues, run_id[c])
                 ELSE queues
    /\ pc' = [pc EXCEPT ![c] = "cancelled"]
    /\ Release(c)
    /\ qbuf' = Collect(IF pc[c] \in TryPcs THEN HubClear(queues, run_id[c])
                        ELSE queues,
                        [waitq EXCEPT ![c] = 0], qbuf)
    /\ UNCHANGED <<run_id, inner, exc, turns, out, accepted>>
    /\ UNCHANGED <<storeVars, envVars>>
    /\ UNCHANGED sideVars

\* ------------------------------------------------------------------------
\* POST /api/continuation (backend/main.py post_continuation)
\* ------------------------------------------------------------------------

\* run ids a continuation request may carry: missing, empty, or the id of
\* the run (which no stream may have opened yet, or every stream left)
PostRunIds == {None, "", "u1"}

\* a handler without the check of the two maps
PostStatusNoMapCheck(rid, p) ==
    IF rid = None THEN "422"
    ELSE IF rid = "" THEN "400"
    ELSE "ok"

\* ContinuationRequest validation, the two 400 checks, then hub.push
PostStatus(rid, p) ==
    IF rid = None THEN "422"
    ELSE IF rid = "" THEN "400"
    ELSE IF IsEmptyPayload(p) THEN "400"
    ELSE "ok"

\* a handler that drops the payload when the hub has no mailbox of the run
post_continuation_to_open(rid, p) ==
    /\ pushes < MaxPush
    /\ pushes' = pushes + 1
    /\ lastPost' = PostStatus(rid, p)
    /\ IF PostStatus(rid, p) = "ok" /\ HubHas(queues, rid)
       THEN /\ queues' = queues
            /\ qbuf' = [qbuf EXCEPT ![queues[rid]] = Append(@, p)]
       ELSE UNCHANGED hubVars
    /\ UNCHANGED <<streamVars, storeVars, agentBuilt, executed>>
    /\ UNCHANGED sideVars

post_continuation(rid, p) ==
    /\ pushes < MaxPush
    /\ pushes' = pushes + 1
    /\ lastPost' = PostStatus(rid, p)
    /\ IF PostStatus(rid, p) = "ok"
       THEN /\ queues' = GetQueueMap(queues, waitq, rid)
            /\ qbuf' = [qbuf EXCEPT
                          ![GetQueueId(queues, waitq, rid)] = Append(@, p)]
       ELSE UNCHANGED hubVars
    /\ UNCHANGED <<streamVars, storeVars, agentBuilt, executed>>
    /\ UNCHANGED sideVars

\* ------------------------------------------------------------------------
\* Specification
\* ------------------------------------------------------------------------

StreamStep(c) ==
    \/ ResolveTool(c)
    \/ ModelStep(c)
    \/ TurnResult(c)
    \/ Finish(c)
    \/ WaitCall(c)
    \/ WaitDeliver(c)
    \/ WaitTimeout(c)
    \/ stream_with_error_handling(c)

Next ==
    \/ \E c \in Conns : \E b \in Bodies(c) : chat(c, b)
    \/ \E c \in Conns : StreamStep(c)
    \/ \E c \in Conns : Cancel(c)
    \/ \E rid \in PostRunIds, p \in Payloads : post_continuation(rid, p)

Spec == Init /\ [][Next]_vars

\* ------------------------------------------------------------------------
\* load_messages on its own: any flat list, reconciled once
\* ------------------------------------------------------------------------

\* the messages a flat list is made of
UIMessages ==
    {UIUser, UIText, UICalls(<<"t1", "t2">>)}
    \cup {UICalls(<<t>>) : t \in CallIds}
    \cup {UITool(t) : t \in CallIds}

FlatLists == UNION {[1..n -> UIMessages] : n \in 0..MaxFlat}

ReconcilerInit ==
    /\ ChatInit
    /\ StoreInit("memory", NoInt, NoInt)
    /\ now = 0
    /\ ArtifactInit(DefaultArtifactTtl)
    /\ flat \in FlatLists
    /\ loaded = <<>>

\* loaded = TanStackAIAdapter.load_messages(messages)
LoadMessages ==
    /\ loaded = <<>>
    /\ loaded' = <<load_messages(flat)>>
    /\ UNCHANGED <<flat, streamVars, hubVars, storeVars, envVars>>
    /\ UNCHANGED <<clockVars, configVars, callVars, artifactVars, hubLogVars>>
    /\ UNCHANGED <<tableVars, usageVars>>

ReconcilerNext == LoadMessages

ReconcilerSpec == ReconcilerInit /\ [][ReconcilerNext]_vars

\* ------------------------------------------------------------------------
\* The run store on its own: any configuration, any sequence of calls
\* and clock advances
\* ------------------------------------------------------------------------

\* (run_store_ttl_minutes, run_store_max_messages): nothing configured,
\* zero, negative, and a TTL of one minute with a cap of two messages
StoreConfigs ==
    {<<NoInt, NoInt>>, <<(<<0>>), (<<0>>)>>, <<(<<-1>>), (<<-1>>)>>,
     <<(<<1>>), (<<2>>)>>}

Backends == {"memory", "postgres"}

\* a conversation of n messages
Conversation(n) ==
    [i \in 1..n |-> IF i % 2 = 1 THEN ModelRequest(<<UserPromptPart>>)
                    ELSE ModelResponse(<<TextPart>>)]

Conversations == {Conversation(n) : n \in 0..MaxStored}

Pendings == {NonePending, {ToolReq("t1", "approval")}}

\* the model argument of set_messages and set_pending
StoreModels == {"m1"}

InMemory == settings.run_store_backend = "memory"

StoreCall(name, r, messages, pending, model) ==
    [name |-> name, run_id |-> r, messages |-> messages,
     pending |-> pending, model |-> model]

\* the call changes the store to s and returns ret
Called(call, s, ret) ==
    /\ runs' = s.runs
    /\ last_updated' = s.last_updated
    /\ stOp' = call
    /\ stRet' = ret
    /\ UNCHANGED <<streamVars, hubVars, envVars>>
    /\ UNCHANGED <<clockVars, configVars, reconcilerVars, artifactVars,
                   hubLogVars, tableVars, usageVars>>

StoreSpecInit ==
    /\ ChatInit
    /\ \E b \in Backends : \E cfg \in StoreConfigs :
          StoreInit(b, cfg[1], cfg[2])
    /\ now = 0
    /\ ReconcilerIdle
    /\ ArtifactInit(DefaultArtifactTtl)

\* time passes
Tick ==
    /\ now < MaxClock
    /\ now' = now + 1
    /\ UNCHANGED <<streamVars, hubVars, storeVars, envVars>>
    /\ UNCHANGED <<configVars, callVars, reconcilerVars, artifactVars,
                   hubLogVars, tableVars, usageVars>>

Get(r) ==
    LET res == IF InMemory THEN get(Store, r) ELSE pg_get(Store, r)
    IN Called(StoreCall("get", r, <<>>, NonePending, None),
              res.store, Return(res.ret, 0))

SetMessages(r, messages, model) ==
    LET s == IF InMemory THEN set_messages(Store, r, messages, model)
             ELSE pg_set_messages(Store, r, messages, model)
    IN Called(StoreCall("set_messages", r, messages, NonePending, model),
              s, Return(s.runs[r], 0))

SetPending(r, pending, model) ==
    LET s == IF InMemory THEN set_pending(Store, r, pending, model)
             ELSE pg_set_pending(Store, r, pending, model)
    IN Called(StoreCall("set_pending", r, <<>>, pending, model),
              s, Return(s.runs[r], 0))

Clear(r) ==
    Called(StoreCall("clear", r, <<>>, NonePending, None),
           clear(Store, r), Return(NoRun, 0))

CleanupExpired ==
    LET res == IF InMemory THEN cleanup_expired(Store)
               ELSE pg_cleanup_expired(Store)
    IN Called(StoreCall("cleanup_expired", None, <<>>, NonePending, None),
              res.store, Return(NoRun, res.ret))

StoreNext ==
    \/ Tick
    \/ \E r \in RunIds : Get(r)
    \/ \E r \in RunIds : \E messages \in Conversations :
          \E model \in StoreModels : SetMessages(r, messages, model)
    \/ \E r \in RunIds : \E pending \in Pendings :
          \E model \in StoreModels : SetPending(r, pending, model)
    \/ \E r \in RunIds : Clear(r)
    \/ CleanupExpired

StoreSpec == StoreSpecInit /\ [][StoreNext]_vars

\* ------------------------------------------------------------------------
\* set_messages and set_pending of one run with every kind of model
\* argument (None, the empty string, a name) and of pending argument
\* ------------------------------------------------------------------------

UpsertModels == {None, "", "m1"}

UpsertPendings ==
    {NonePending, {ToolReq("t1", "approval")}, {ToolReq("t1", "external")}}

UpsertNext ==
    \/ Tick
    \/ \E messages \in Conversations : \E model \in UpsertModels :
          SetMessages(MintedId(1), messages, model)
    \/ \E pending \in UpsertPendings : \E model \in UpsertModels :
          SetPending(MintedId(1), pending, model)
    \/ Clear(MintedId(1))

UpsertSpec == StoreSpecInit /\ [][UpsertNext]_vars

\* ------------------------------------------------------------------------
\* Both run stores side by side: an InMemoryRunStore (runs, last_updated,
\* stRet) and a PostgresRunStoreAdapter (run_store, pgRet) are made with
\* the same ttl_minutes and max_messages, read the same clock and are
\* handed the same calls
\* ------------------------------------------------------------------------

\* the lists handed to set_messages: none, and one longer than the cap
SideBySideConversations == {Conversation(0), Conversation(MaxStored)}

SideBySideInit ==
    /\ ChatInit
    /\ \E cfg \in StoreConfigs : StoreInit("memory", cfg[1], cfg[2])
    /\ now = 0
    /\ ReconcilerIdle
    /\ ArtifactInit(DefaultArtifactTtl)

\* the call leaves the in-memory store as s and returns ret there, and
\* leaves the table as t and returns pret there
Both(call, s, ret, t, pret) ==
    /\ runs' = s.runs
    /\ last_updated' = s.last_updated
    /\ stOp' = call
    /\ stRet' = ret
    /\ run_store' = t
    /\ pgRet' = pret
    /\ UNCHANGED <<streamVars, hubVars, envVars>>
    /\ UNCHANGED <<clockVars, configVars, reconcilerVars, artifactVars,
                   hubLogVars, usageVars>>

BothGet(r) ==
    LET m == get(Store, r)
        t == pg_get(run_store, r)
    IN Both(StoreCall("get", r, <<>>, NonePending, None),
            m.store, Return(m.ret, 0), t.store, Return(t.ret, 0))

BothSetMessages(r, messages, model) ==
    LET m == set_messages(Store, r, messages, model)
        t == pg_set_messages(run_store, r, messages, model)
    IN Both(StoreCall("set_messages", r, messages, NonePending, model),
            m, Return(m.runs[r], 0), t, Return(t.runs[r], 0))

BothSetPending(r, pending, model) ==
    LET m == set_pending(Store, r, pending, model)
        t == pg_set_pending(run_store, r, pending, model)
    IN Both(StoreCall("set_pending", r, <<>>, pending, model),
            m, Return(m.runs[r], 0), t, Return(t.runs[r], 0))

BothClear(r) ==
    Both(StoreCall("clear", r, <<>>, NonePending, None),
         clear(Store, r), Return(NoRun, 0),
         clear(run_store, r), Return(NoRun, 0))

BothCleanupExpired ==
    LET m == cleanup_expired(Store)
        t == pg_cleanup_expired(run_store)
    IN Both(StoreCall("cleanup_expired", None, <<>>, NonePending, None),
            m.store, Return(NoRun, m.ret), t.store, Return(NoRun, t.ret))

SideBySideNext ==
    \/ Tick
    \/ \E r \in RunIds : BothGet(r)
    \/ \E r \in RunIds : \E messages \in SideBySideConversations :
          \E model \in UpsertModels : BothSetMessages(r, messages, model)
    \/ \E r \in RunIds : \E pending \in Pendings :
          \E model \in UpsertModels : BothSetPending(r, pending, model)
    \/ \E r \in RunIds : BothClear(r)
    \/ BothCleanupExpired

SideBySideSpec == SideBySideInit /\ [][SideBySideNext]_vars

\* ------------------------------------------------------------------------
\* Every method of a run store: get, set_messages, set_pending, clear and
\* cleanup_expired of either store, set and upsert of the InMemoryRunStore
\* (the PostgresRunStoreAdapter has neither)
\* ------------------------------------------------------------------------

\* the pending arguments: None and one request
MethodsPendings == {NonePending, {ToolReq("t1", "approval")}}

\* the states handed to set
SetStates ==
    {RunState(messages, pending, model) :
        messages \in SideBySideConversations, pending \in MethodsPendings,
        model \in {None, "m1"}}

Set(r, state) ==
    /\ InMemory
    /\ Called(StoreCall("set", r, state.messages, state.pending, state.model),
              set(Store, r, state), Return(NoRun, 0))

Upsert(r, model) ==
    /\ InMemory
    /\ LET s == upsert(Store, r, model)
       IN Called(StoreCall("upsert", r, <<>>, NonePending, model),
                 s, Return(s.runs[r], 0))

MethodsNext ==
    \/ Tick
    \/ \E r \in RunIds : Get(r)
    \/ \E r \in RunIds : \E state \in SetStates : Set(r, state)
    \/ \E r \in RunIds : \E model \in {None, "m1"} : Upsert(r, model)
    \/ \E r \in RunIds : \E messages \in SideBySideConversations :
          \E model \in {None, "m1"} : SetMessages(r, messages, model)
    \/ \E r \in RunIds : \E pending \in MethodsPendings :
          \E model \in {None, "m1"} : SetPending(r, pending, model)
    \/ \E r \in RunIds : Clear(r)
    \/ CleanupExpired

MethodsSpec == StoreSpecInit /\ [][MethodsNext]_vars

\* ------------------------------------------------------------------------
\* The usage provider on its own: any result, with up to three keys or
\* attributes of usage_data set, is captured and the provider is called
\* ------------------------------------------------------------------------

UsageValues == {NoneValue} \cup {Tokens(n) : n \in 0..MaxTokens}

UsageDatas ==
    {[[[NoResult.data EXCEPT ![a] = x] EXCEPT ![b] = y] EXCEPT ![c] = z] :
        a \in UsageNames, b \in UsageNames, c \in UsageNames,
        x \in UsageValues \cup {Absent}, y \in UsageValues \cup {Absent},
        z \in UsageValues \cup {Absent}}

Results ==
    {Result(TRUE, FALSE, NoResult.data)}
    \cup {Result(FALSE, dict, data) : dict \in BOOLEAN, data \in UsageDatas}

\* capturing_native_events: captured_result = event.result
Capture(result) ==
    /\ captured_result = NoResult
    /\ usage = NotCalled
    /\ captured_result' = result
    /\ UNCHANGED usage
    /\ UNCHANGED <<streamVars, hubVars, storeVars, envVars>>
    /\ UNCHANGED <<clockVars, configVars, callVars, reconcilerVars,
                   artifactVars, hubLogVars, tableVars>>

\* usage_provider: lambda: _usage_from_result(captured_result)
usage_provider ==
    /\ usage = NotCalled
    /\ usage' = _usage_from_result(captured_result)
    /\ UNCHANGED captured_result
    /\ UNCHANGED <<streamVars, hubVars, storeVars, envVars>>
    /\ UNCHANGED <<clockVars, configVars, callVars, reconcilerVars,
                   artifactVars, hubLogVars, tableVars>>

UsageNext ==
    \/ /\ captured_result = NoResult
       /\ \E result \in Results : Capture(result)
    \/ usage_provider

UsageSpec == Init /\ [][UsageNext]_vars

\* ------------------------------------------------------------------------
\* The artifact store on its own: store(), get(), list_artifacts() and
\* cleanup_expired() for three runs while the clock advances
\* ------------------------------------------------------------------------

\* ttl_minutes a deployment may configure
ArtifactTtls == {0, 1}

ArtifactSpecInit ==
    /\ ChatInit
    /\ StoreInit("memory", NoInt, NoInt)
    /\ now = 0
    /\ ReconcilerIdle
    /\ \E ttl_minutes \in ArtifactTtls : ArtifactInit(ttl_minutes)

\* the call changes the store to self and returns ret
ArtifactCalled(call, self, ret) ==
    /\ _store' = self._store
    /\ _run_counters' = self._run_counters
    /\ artOp' = call
    /\ artRet' = ret
    /\ UNCHANGED _artifact_ttl
    /\ UNCHANGED <<streamVars, hubVars, storeVars, envVars>>
    /\ UNCHANGED <<clockVars, configVars, callVars, reconcilerVars, hubLogVars>>
    /\ UNCHANGED <<tableVars, usageVars>>

\* store(run_id, df): _cleanup_expired(), _generate_artifact_id(run_id),
\* self._store[key] = artifact.  The Artifact class is not part of this
\* file: created_at is any clock reading up to now.
store(r) ==
    /\ Cardinality(UNION {{<<o, i>> : i \in 1..Len(artifact_ids[o])} :
                             o \in ArtifactRunIds}) < MaxStore
    /\ LET g == _generate_artifact_id(_cleanup_expired(ArtifactStore).self, r)
       IN \E created_at \in 0..now :
             LET artifact == Artifact(g.id, r, created_at) IN
             /\ ArtifactCalled(
                   ArtifactCall("store", r, <<>>),
                   [g.self EXCEPT !._store =
                       {a \in @ : a.key # artifact.key} \cup {artifact}],
                   ArtifactReturn(artifact, {}, 0))
             /\ artifact_ids' = [artifact_ids EXCEPT ![r] = Append(@, g.id)]

\* artifact ids a client may ask for: what follows a "::" in a key of the
\* store (every other id misses), and one id that misses
ClientArtifactIds ==
    {<<"x">>}
    \cup UNION {{SubSeq(a.key, k + 2, Len(a.key)) :
                   k \in {i \in 1..(Len(a.key) - 1) :
                            a.key[i] = ":" /\ a.key[i + 1] = ":"}} :
                a \in _store}

\* get(run_id, artifact_id): _cleanup_expired(), self._store.get(key), and
\* once more the test of the age
artifact_get(r, artifact_id) ==
    LET self == _cleanup_expired(ArtifactStore).self
        key == _composite_key(r, artifact_id)
        found == {a \in self._store : a.key = key}
        artifact == IF found = {} THEN NoArtifact ELSE CHOOSE a \in found : TRUE
    IN /\ IF artifact # NoArtifact /\ ArtifactExpired(artifact)
          THEN ArtifactCalled(ArtifactCall("get", r, artifact_id),
                              [self EXCEPT !._store = @ \ {artifact}],
                              ArtifactReturn(NoArtifact, {}, 0))
          ELSE ArtifactCalled(ArtifactCall("get", r, artifact_id), self,
                              ArtifactReturn(artifact, {}, 0))
       /\ UNCHANGED artifact_ids

\* list_artifacts(run_id): _cleanup_expired(), then of every key that
\* starts with f"{run_id}::" what follows the first "::"
list_artifacts(r) ==
    LET self == _cleanup_expired(ArtifactStore).self
        prefix == r \o <<":", ":">>
        first(key) == CHOOSE k \in 1..(Len(key) - 1) :
                         /\ key[k] = ":" /\ key[k + 1] = ":"
                         /\ \A i \in 1..(k - 1) :
                               ~(key[i] = ":" /\ key[i + 1] = ":")
    IN /\ ArtifactCalled(
             ArtifactCall("list_artifacts", r, <<>>), self,
             ArtifactReturn(NoArtifact,
                {SubSeq(a.key, first(a.key) + 2, Len(a.key)) :
                    a \in {b \in self._store :
                              /\ Len(b.key) >= Len(prefix)
                              /\ SubSeq(b.key, 1, Len(prefix)) = prefix}},
                0))
       /\ UNCHANGED artifact_ids

\* cleanup_expired()
ArtifactCleanup ==
    LET res == _cleanup_expired(ArtifactStore)
    IN /\ ArtifactCalled(ArtifactCall("cleanup_expired", <<>>, <<>>),
                         res.self, ArtifactReturn(NoArtifact, {}, res.ret))
       /\ UNCHANGED artifact_ids

ArtifactNext ==
    \/ Tick
    \/ \E r \in ArtifactRunIds : store(r)
    \/ \E r \in ArtifactRunIds : \E artifact_id \in ClientArtifactIds :
          artifact_get(r, artifact_id)
    \/ \E r \in ArtifactRunIds : list_artifacts(r)
    \/ ArtifactCleanup

ArtifactSpec == ArtifactSpecInit /\ [][ArtifactNext]_vars

\* ------------------------------------------------------------------------
\* The Continuation Hub and the wait loop of stream() on their own: tasks
\* that reached the wait loop after a deferred turn, and callers of push
\* with any payload
\* ------------------------------------------------------------------------

\* a _get_queue that leaves its caller holding the lock
_get_queue_keeping_lock(r, task) ==
    [queue |-> GetQueueId(queues, waitq, r),
     queues |-> GetQueueMap(queues, waitq, r),
     lock |-> <<task>>]

\* _get_queue: `async with self._lock: return self._queues.setdefault(...)`;
\* the lock is released on leaving the block
_get_queue(r, task) ==
    [queue |-> GetQueueId(queues, waitq, r),
     queues |-> GetQueueMap(queues, waitq, r),
     lock |-> NoInt]

\* payloads handed to push: the empty one, an approval, a tool result
HubPayloads ==
    {p \in Payloads : \A t \in TIds : p.approvals[t] # "no"}

\* the record of the mailboxes after _get_queue(r): a mailbox it makes
\* starts with an empty record
Fresh(log, r) ==
    IF HubHas(queues, r) THEN log
    ELSE [log EXCEPT ![NewQueue(queues, waitq)] = <<>>]

\* a mailbox object nothing refers to any more is gone with its record
Kept(qs, wq, log) ==
    [q \in QIds |-> IF Alive(qs, wq, q) THEN log[q] ELSE <<>>]

\* what the actions of the hub and of the wait loop leave alone
hubFrame ==
    <<model_name, todo, newdef, is_deferred, inner, exc, turns, accepted,
      storeVars, agentBuilt, executed, lastPost,
      clockVars, configVars, callVars, reconcilerVars, artifactVars,
      tableVars, usageVars>>

\* a put_nowait that puts the payload in front
push_in_front(r, p) ==
    /\ pushes < MaxHubPush
    /\ _lock = NoInt
    /\ pushes' = pushes + 1
    /\ LET g == _get_queue(r, 0)
       IN /\ queues' = g.queues
          /\ qbuf' = [qbuf EXCEPT ![g.queue] = <<p>> \o @]
          /\ _lock' = g.lock
    /\ put' = [Fresh(put, r) EXCEPT ![_get_queue(r, 0).queue] = Append(@, p)]
    /\ taken' = Fresh(taken, r)
    /\ UNCHANGED <<pc, run_id, cur, waitq, out, timeouts>>
    /\ UNCHANGED hubFrame

\* ContinuationHub.push: _get_queue, then queue.put_nowait(payload) on the
\* unbounded mailbox
push(r, p) ==
    /\ pushes < MaxHubPush
    /\ _lock = NoInt
    /\ pushes' = pushes + 1
    /\ LET g == _get_queue(r, 0)
       IN /\ queues' = g.queues
          /\ qbuf' = [qbuf EXCEPT ![g.queue] = Append(@, p)]
          /\ _lock' = g.lock
    /\ put' = [Fresh(put, r) EXCEPT ![_get_queue(r, 0).queue] = Append(@, p)]
    /\ taken' = Fresh(taken, r)
    /\ UNCHANGED <<pc, run_id, cur, waitq, out, timeouts>>
    /\ UNCHANGED hubFrame

\* a turn of a stream of run r ended with deferred requests: the stream
\* reaches the wait loop
Suspend(c, r) ==
    /\ pc[c] = "idle"
    /\ pc' = [pc EXCEPT ![c] = "wait"]
    /\ run_id' = [run_id EXCEPT ![c] = r]
    /\ UNCHANGED <<cur, waitq, out, hubVars, pushes, hubLogVars>>
    /\ UNCHANGED hubFrame

\* a wait loop that takes any payload for an answer
Woken(c, p) ==
    /\ pc' = [pc EXCEPT ![c] = "resumed"]
    /\ cur' = [cur EXCEPT ![c] =
                 from_request(ContinuationBody(run_id[c], p), Store)]

\* wait returned payload p: `if not payload.approvals and not
\* payload.tool_results: continue`, else `break` and the next adapter is
\* built from the continuation body
Returned(c, p) ==
    IF IsEmptyPayload(p)
    THEN /\ pc' = [pc EXCEPT ![c] = "wait"]
         /\ UNCHANGED cur
    ELSE /\ pc' = [pc EXCEPT ![c] = "resumed"]
         /\ cur' = [cur EXCEPT ![c] =
                      from_request(ContinuationBody(run_id[c], p), Store)]

\* queue.get() of mailbox q yields its head to task c
Got(c, q, qs, wq) ==
    /\ qbuf' = Collect(qs, wq, [qbuf EXCEPT ![q] = Tail(@)])
    /\ taken' = [taken EXCEPT ![q] = Append(@, <<c, Head(qbuf[q])>>)]
    /\ Returned(c, Head(qbuf[q]))
    /\ UNCHANGED <<out, put, timeouts>>

\* continuation_hub.wait(run_id, timeout=KEEPALIVE_INTERVAL_SECONDS):
\* _get_queue, then queue.get() returns at once when the mailbox holds a
\* payload, else the task blocks on the mailbox
Wait(c) ==
    /\ pc[c] = "wait"
    /\ _lock = NoInt
    /\ LET g == _get_queue(run_id[c], c)
       IN /\ queues' = g.queues
          /\ IF qbuf[g.queue] # <<>>
             THEN /\ Got(c, g.queue, g.queues, waitq)
                  /\ _lock' = NoInt
                  /\ UNCHANGED waitq
             ELSE /\ pc' = [pc EXCEPT ![c] = "blocked"]
                  /\ waitq' = [waitq EXCEPT ![c] = g.queue]
                  /\ _lock' = g.lock
                  /\ put' = Fresh(put, run_id[c])
                  /\ taken' = Fresh(taken, run_id[c])
                  /\ UNCHANGED <<qbuf, cur, out, timeouts>>
    /\ UNCHANGED <<run_id, pushes>>
    /\ UNCHANGED hubFrame

\* a payload reaches the blocked queue.get()
Deliver(c) ==
    /\ pc[c] = "blocked"
    /\ qbuf[waitq[c]] # <<>>
    /\ Got(c, waitq[c], queues, [waitq EXCEPT ![c] = 0])
    /\ waitq' = [waitq EXCEPT ![c] = 0]
    /\ _lock' = IF _lock = <<c>> THEN NoInt ELSE _lock
    /\ UNCHANGED <<run_id, queues, pushes>>
    /\ UNCHANGED hubFrame

\* a wait loop that goes round without a word when wait returns None
TimeoutSilent(c) ==
    /\ pc[c] = "blocked"
    /\ timeouts[c] < MaxKeepAlive
    /\ timeouts' = [timeouts EXCEPT ![c] = @ + 1]
    /\ pc' = [pc EXCEPT ![c] = "wait"]
    /\ waitq' = [waitq EXCEPT ![c] = 0]
    /\ qbuf' = Collect(queues, [waitq EXCEPT ![c] = 0], qbuf)
    /\ put' = Kept(queues, [waitq EXCEPT ![c] = 0], put)
    /\ taken' = Kept(queues, [waitq EXCEPT ![c] = 0], taken)
    /\ _lock' = IF _lock = <<c>> THEN NoInt ELSE _lock
    /\ UNCHANGED <<run_id, cur, out, queues, pushes>>
    /\ UNCHANGED hubFrame

\* a wait loop that, after a timeout, waits on the mailbox it already has
TimeoutHolding(c) ==
    /\ pc[c] = "blocked"
    /\ Len(SelectSeq(out[c], LAMBDA f : f = KeepAlive)) < MaxKeepAlive
    /\ timeouts' = [timeouts EXCEPT ![c] = @ + 1]
    /\ out' = [out EXCEPT ![c] = Append(@, KeepAlive)]
    /\ UNCHANGED <<pc, waitq, qbuf, put, taken, _lock>>
    /\ UNCHANGED <<run_id, cur, queues, pushes>>
    /\ UNCHANGED hubFrame

\* asyncio.TimeoutError after KEEPALIVE_INTERVAL_SECONDS, whether or not a
\* payload has just been put: wait returns None, the loop yields the
\* keep-alive line and goes round
Timeout(c) ==
    /\ pc[c] = "blocked"
    /\ Len(SelectSeq(out[c], LAMBDA f : f = KeepAlive)) < MaxKeepAlive
    /\ timeouts' = [timeouts EXCEPT ![c] = @ + 1]
    /\ out' = [out EXCEPT ![c] = Append(@, KeepAlive)]
    /\ pc' = [pc EXCEPT ![c] = "wait"]
    /\ waitq' = [waitq EXCEPT ![c] = 0]
    /\ qbuf' = Collect(queues, [waitq EXCEPT ![c] = 0], qbuf)
    /\ put' = Kept(queues, [waitq EXCEPT ![c] = 0], put)
    /\ taken' = Kept(queues, [waitq EXCEPT ![c] = 0], taken)
    /\ _lock' = IF _lock = <<c>> THEN NoInt ELSE _lock
    /\ UNCHANGED <<run_id, cur, queues, pushes>>
    /\ UNCHANGED hubFrame

\* `finally: await continuation_hub.clear(run_id)`
Cleared(c) ==
    /\ _lock = NoInt
    /\ queues' = HubClear(queues, run_id[c])
    /\ qbuf' = Collect(HubClear(queues, run_id[c]),
                       [waitq EXCEPT ![c] = 0], qbuf)
    /\ waitq' = [waitq EXCEPT ![c] = 0]
    /\ put' = Kept(HubClear(queues, run_id[c]),
                    [waitq EXCEPT ![c] = 0], put)
    /\ taken' = Kept(HubClear(queues, run_id[c]),
                      [waitq EXCEPT ![c] = 0], taken)
    /\ UNCHANGED <<run_id, cur, out, pushes, _lock, timeouts>>
    /\ UNCHANGED hubFrame

\* the turn the stream resumed with ends: with deferred requests again,
\* and the turn loop goes round to the wait loop, or for good
Resumed(c) ==
    /\ pc[c] = "resumed"
    /\ \/ /\ pc' = [pc EXCEPT ![c] = "wait"]
          /\ UNCHANGED <<run_id, cur, waitq, out, hubVars, pushes,
                         hubLogVars>>
          /\ UNCHANGED hubFrame
       \/ /\ pc' = [pc EXCEPT ![c] = "closed"]
          /\ Cleared(c)

\* the client disconnects while the stream waits
Disconnect(c) ==
    /\ pc[c] \in {"wait", "blocked"}
    /\ pc' = [pc EXCEPT ![c] = "cancelled"]
    /\ Cleared(c)

HubNext ==
    \/ \E c \in Conns : \E r \in {MintedId(1), MintedId(c)} : Suspend(c, r)
    \/ \E r \in RunIds, p \in HubPayloads : push(r, p)
    \/ \E c \in Conns : Wait(c)
    \/ \E c \in Conns : Deliver(c)
    \/ \E c \in Conns : Timeout(c)
    \/ \E c \in Conns : Resumed(c)
    \/ \E c \in Conns : Disconnect(c)

HubSpec == Init /\ [][HubNext]_vars

\* The event loop runs every task that is ready: a stream that can take a
\* step eventually takes one.  Clients are under no obligation.
LiveSpec == Spec /\ \A c \in Conns : WF_vars(StreamStep(c))

\* ------------------------------------------------------------------------
\* Properties
\* ------------------------------------------------------------------------

Closed(c) == pc[c] = "closed"

Suspended(c) == pc[c] \in {"wait", "blocked"}

\* positions of the frames of s that have the given type
At(s, type) == {i \in 1..Len(s) : s[i].type = type}

\* positions of the frames of s of the given type for tool call t
AtTool(s, type, t) == {i \in At(s, type) : s[i].tc = t}

EndsWithDone(s) ==
    /\ Len(s) >= 2
    /\ s[Len(s) - 1].type = "done"
    /\ s[Len(s)] = encode_done

\* C1: every stream of POST /api/chat that has ended -- after a plain
\* answer, after a failure to construct the agent or the adapter, after an
\* exception raised mid-stream -- ends with a done chunk immediately
\* followed by the [DONE] sentinel, and the sentinel is never followed by
\* anything: it only ever is the last frame of an ended stream.
C1_Framing ==
    \A c \in Conns :
        /\ Closed(c) => EndsWithDone(out[c])
        /\ \A i \in At(out[c], "[DONE]") : i = Len(out[c]) /\ Closed(c)

\* one stream ended after a suspension and a plain answer, the other after
\* text and an exception mid-stream
C1_Witness ==
    /\ Closed(1) /\ exc[1] = None /\ At(out[1], "approval-requested") # {}
    /\ Closed(2) /\ exc[2] = "boom" /\ At(out[2], "content") # {}

\* C2: when the wrapped stream yields frames and then raises, the wrapper's
\* output is exactly those frames in order, then one error chunk carrying
\* the exception's message, one done chunk and the terminator; the stream
\* ends regularly.  Without an exception the frames pass through as is.
C2_ErrorTail ==
    \A c \in Conns :
        LET n == Len(inner[c]) IN
        IF Closed(c) /\ exc[c] # None
        THEN /\ Len(out[c]) = n + 3
             /\ SubSeq(out[c], 1, n) = inner[c]
             /\ out[c][n + 1].type = "error"
             /\ out[c][n + 1].content = exc[c]
             /\ out[c][n + 2].type = "done"
             /\ out[c][n + 3] = encode_done
        ELSE out[c] = inner[c]

\* the case of the package's test: one content chunk, then "boom"
C2_Witness ==
    \E c \in Conns :
        /\ Closed(c) /\ exc[c] = "boom"
        /\ Len(inner[c]) = 1 /\ inner[c][1].type = "content"

ConstructionFailures == {"agent", "db", "body"}

\* C3: when the agent cannot be constructed, or the adapter cannot be built
\* from the request body (or no database connection is had), the response
\* is exactly one error chunk, one done chunk and the terminator, carrying
\* the run id of chat() and settings.llm_model; no turn was started and
\* stream() itself yielded nothing.
C3_ConstructionFailure ==
    \A c \in Conns :
        Closed(c) /\ exc[c] \in ConstructionFailures =>
            /\ out[c] = <<Chunk("error", run_id[c], LlmModel, None, exc[c]),
                          Chunk("done", run_id[c], LlmModel, None, "error"),
                          encode_done>>
            /\ inner[c] = <<>>
            /\ turns[c] = 0
            /\ \A t \in TIds : <<t, c>> \notin executed

\* the agent could not be constructed for one request, the body of the
\* other could not be parsed
C3_Witness ==
    /\ Closed(1) /\ exc[1] = "body"
    /\ Closed(2) /\ exc[2] = "agent"

\* C4: no done chunk is forwarded for a turn that ends with deferred
\* requests: a done chunk in the output is either the last frame of a
\* stream whose last turn ended with a plain answer, or the done chunk of
\* the error tail.  A suspended or resumed stream has forwarded none.
C4_DoneSuppressed ==
    \A c \in Conns :
        \A i \in At(out[c], "done") :
            \/ i = Len(out[c]) /\ pc[c] \in {"finish", "cancelled"}
                 /\ out[c][i].content = "stop"
            \/ i = Len(out[c]) - 1 /\ Closed(c)

\* a stream suspended after its turn announced the deferred request
C4_Witness ==
    \E c \in Conns :
        /\ Suspended(c)
        /\ is_deferred[c]
        /\ At(out[c], "approval-requested") # {}
        /\ At(out[c], "done") = {}

AnnouncementTypes == {"approval-requested", "tool-input-available"}

\* the frames a step appended to the output of c
Appended(c) == SubSeq(out'[c], Len(out[c]) + 1, Len(out'[c]))

C8_ResumptionsEquivalent ==
    \A c \in Conns : \A p \in Payloads :
        Suspended(c) /\ ~IsEmptyPayload(p) =>
            PushResume(c, p) = RequestResume(c, p)

\* the suspension of stream c on request q, and an answer to q taken up and
\* resolved by a turn of some stream of the run
SuspendedOn(c, q) == Suspended(c) /\ q \in newdef[c]

AnswerTo(q) ==
    IF q.kind = "approval" THEN {<<q.id, "yes">>, <<q.id, "no">>}
    ELSE {<<q.id, "result">>}

Answered(q) ==
    \E d \in Conns :
        /\ accepted[d] \cap AnswerTo(q) # {}
        /\ exc[d] = None
        /\ pc[d] \notin {"resolve", "cancelled"}

Ended(c) == pc[c] \in {"closed", "cancelled"}

\* stream c is inside a turn of the runtime
InTurn(c) == pc[c] \in {"resolve", "model", "result"}

\* clients do not run two turns of the run at once
OneTurnAtATime ==
    \A c \in Conns : \A d \in Conns \ {c} : ~(InTurn(c) /\ InTurn(d))

\* C9 as stated: no stream is left hung.  Provided that, again and again,
\* no stream waits on a request that no turn has taken an answer to (every
\* suspension is answered, over the hub or by a new request carrying the
\* run id), that no client disconnects, and that the clients do not run two
\* turns at once, every stream opened by POST /api/chat ends: it does not
\* stay open forever.
C9_NoStreamHung ==
    (/\ \A c \in Conns : \A q \in {AllReqs[i] : i \in 1..Len(AllReqs)} :
            []<>(SuspendedOn(c, q) => Answered(q))
     /\ []<>(\A c \in Conns : pc[c] # "cancelled")
     /\ []OneTurnAtATime)
    => \A c \in Conns : []<>(pc[c] = "idle" \/ Ended(c))

\* C10: a POST /api/continuation with a missing or empty run_id, or with
\* both maps empty, is rejected and leaves the hub as it was (no mailbox
\* created, nothing enqueued); any other appends exactly its payload to the
\* mailbox of its run id, leaves every other mailbox alone, and is
\* acknowledged.  No stream is touched either way.
C10_ContinuationPush ==
    [][pushes' # pushes =>
       \A rid \in PostRunIds : \A p \in Payloads :
          post_continuation(rid, p) =>
              IF rid \in {None, ""} \/ IsEmptyPayload(p)
              THEN /\ lastPost' \in {"400", "422"}
                   /\ UNCHANGED hubVars
              ELSE /\ lastPost' = "ok"
                   /\ queues'[rid] # 0
                   /\ qbuf'[queues'[rid]] =
                        (IF queues[rid] # 0 THEN qbuf[queues[rid]] ELSE <<>>)
                            \o <<p>>
                   /\ \A r \in RunIds \ {rid} : queues'[r] = queues[r]
                   /\ \A q \in QIds \ {queues'[rid]} : qbuf'[q] = qbuf[q]
                   /\ UNCHANGED streamVars]_vars

\* an accepted push whose payload waits in the mailbox of its run
C10_Witness ==
    /\ lastPost = "ok"
    /\ \E r \in RunIds : queues[r] # 0 /\ Len(qbuf[queues[r]]) = 1

\* the new trailing input of body b, as the turn adds it to the history
TrailingInput(b) ==
    IF HasPrompt(b.messages) THEN <<ModelRequest(<<UserPromptPart>>)>>
    ELSE <<>>

\* C11: when a request of POST /api/chat carries a run_id for which the run
\* store holds messages M, the history the adapter resolves is M, and the
\* turn starts from M followed by the new trailing input of the body --
\* whatever message list the body carries (none, one new message, or the
\* client's own, different copy of the conversation).
C11_StorePrecedence ==
    [][\A c \in Conns :
          pc[c] = "idle" /\ pc'[c] \in {"model", "resolve"} =>
             \A b \in Bodies(c) :
                (/\ chat(c, b)
                 /\ b.run_id # None
                 /\ runs[b.run_id].present)
                => /\ from_request(b, Store).hist = runs[b.run_id].messages
                   /\ cur'[c].hist =
                        runs[b.run_id].messages \o TrailingInput(b)]_vars

\* a turn started by a request that submitted the client's own copy of the
\* conversation, while the store held a different history for the run
C11_Witness ==
    \E c \in Conns :
        /\ pc[c] = "model"
        /\ cur[c].messages = Resubmitted
        /\ runs[run_id[c]].present
        /\ runs[run_id[c]].messages # load_messages(Earlier(Resubmitted)).messages
        /\ cur[c].hist = Append(runs[run_id[c]].messages,
                                ModelRequest(<<UserPromptPart>>))

\* the tool messages of L that refer to call t
ToolMessages(L, t) ==
    {i \in 1..Len(L) : L[i].role = "tool" /\ L[i].toolCallId = t}

\* each tool call of L has exactly one tool message with its toolCallId,
\* and every tool message answers a call of L
EachCallAnswered(L) ==
    /\ \A t \in CallsOf(L) : Cardinality(ToolMessages(L, t)) = 1
    /\ ReturnsOf(L) \subseteq CallsOf(L)

\* what a list says apart from the tool returns, in order: user prompts,
\* assistant texts, tool calls
RECURSIVE FlatOutline(_)
FlatOutline(L) ==
    IF L = <<>> THEN <<>>
    ELSE LET m == Head(L) IN
         (CASE m.role = "user" -> <<UserPromptPart>>
            [] m.role = "assistant" ->
                 (IF m.content THEN <<TextPart>> ELSE <<>>)
                 \o [i \in 1..Len(m.toolCalls) |-> ToolCallPart(m.toolCalls[i])]
            [] OTHER -> <<>>)
         \o FlatOutline(Tail(L))

RECURSIVE Outline(_)
Outline(ms) ==
    IF ms = <<>> THEN <<>>
    ELSE SelectSeq(Head(ms).parts, LAMBDA p : p.type # "ToolReturn")
         \o Outline(Tail(ms))

\* the list of the specification's example and its reconciled sequence
ExampleList == <<UIUser, UICalls(<<"t1">>), UIText, UITool("t1"), UIUser>>

ExampleLoaded ==
    <<ModelRequest(<<UserPromptPart>>),
      ModelResponse(<<ToolCallPart("t1")>>),
      ModelRequest(<<ToolReturnPart("t1")>>),
      ModelResponse(<<TextPart>>),
      ModelRequest(<<UserPromptPart>>)>>

\* C12: for every flat list in which each tool call has exactly one tool
\* message with its toolCallId (and no tool message is left over),
\* load_messages returns a sequence in which every Response holding a
\* ToolCall part is immediately followed by a Request holding only the
\* ToolReturn part with the same tool_call_id, wherever the tool message
\* stood in the flat list; nothing else is dropped or reordered, and
\* assistant text never shares a Response with an earlier tool call: it
\* is in a Response of its own after the return.  The example of the
\* specification gives exactly the sequence stated there.
C12_ReturnFollowsCall ==
    loaded # <<>> /\ EachCallAnswered(flat) =>
        LET ms == loaded[1].messages IN
        /\ loaded[1].ok
        /\ \A i \in 1..Len(ms) : \A j \in PartsOf(ms[i], "ToolCall") :
              /\ ms[i].kind = "response"
              /\ j = Len(ms[i].parts)
              /\ i < Len(ms)
              /\ ms[i + 1] =
                    ModelRequest(<<ToolReturnPart(ms[i].parts[j].tool_call_id)>>)
        /\ \A i \in 1..Len(ms) : PartsOf(ms[i], "ToolReturn") # {} =>
              i > 1 /\ PartsOf(ms[i - 1], "ToolCall") # {}
        /\ Outline(ms) = FlatOutline(flat)
        /\ flat = ExampleList => ms = ExampleLoaded

\* a list in which assistant text stands between a call and its tool
\* message has been reconciled
C12_Witness ==
    /\ loaded # <<>>
    /\ loaded[1].ok
    /\ \E i \in 1..Len(flat) : \E k \in 1..Len(flat) :
          /\ i + 1 < k
          /\ flat[i] = UICalls(<<"t1">>)
          /\ flat[i + 1] = UIText
          /\ flat[k] = UITool("t1")

\* C13: a client message list holding a tool return without its tool call,
\* or a tool call without its tool return, is refused: chat() with such a
\* list raises before any adapter is built (no turn starts, no tool runs,
\* the Run Store is left as it was, nothing of the list is taken up), and
\* the response is exactly the error chunk, the done chunk and the
\* terminator.
C13_ReconciliationError ==
    /\ [](\A c \in Conns :
            Closed(c) /\ exc[c] = "reconcile" =>
               /\ out[c] = <<Chunk("error", run_id[c], LlmModel, None, exc[c]),
                             Chunk("done", run_id[c], LlmModel, None, "error"),
                             encode_done>>
               /\ inner[c] = <<>>
               /\ turns[c] = 0
               /\ \A t \in TIds : <<t, c>> \notin executed)
    /\ [][\A c \in Conns :
            pc[c] = "idle" /\ pc'[c] # "idle" =>
               \A b \in Bodies(c) :
                  (/\ chat(c, b)
                   /\ b.valid
                   /\ CallsOf(b.messages) # ReturnsOf(b.messages))
                  => /\ pc'[c] = "raised"
                     /\ exc'[c] \in {"agent", "db", "reconcile"}
                     /\ agentBuilt /\ exc'[c] # "db" => exc'[c] = "reconcile"
                     /\ turns'[c] = 0
                     /\ cur'[c] = NoAdapter
                     /\ out'[c] = <<>>
                     /\ UNCHANGED storeVars]_vars

\* two requests with an unmatched list were refused, and both streams are
\* closed
C13_Witness ==
    /\ Closed(1) /\ exc[1] = "reconcile"
    /\ Closed(2) /\ exc[2] = "reconcile"

IsPrefix(a, b) == Len(a) <= Len(b) /\ SubSeq(b, 1, Len(a)) = a

\* the messages stored for the run of c are a prefix of what TurnResult
\* stores
StoredIsExtended(c) ==
    TurnResult(c) /\ runs[run_id[c]].present =>
        IsPrefix(runs[run_id[c]].messages, runs'[run_id[c]].messages)

\* C14 as stated: after a turn of run r ends, the previously stored
\* messages are a prefix of the newly stored ones (no cap and no TTL is
\* configured here).
C14_AsStated == [][\A c \in Conns : StoredIsExtended(c)]_vars

\* C14: the messages stored when a turn ends - with a plain answer or by
\* suspending - are the turn's history: they extend the history the turn
\* started from; and as long as no two turns run at once, the stored
\* messages of a run are a prefix of the history of its running turn, so
\* that they are a prefix of what the turn stores.
C14_HistoryExtended ==
    /\ [][\A c \in Conns :
            TurnResult(c) =>
               /\ runs'[run_id[c]].present
               /\ runs'[run_id[c]].messages = cur[c].hist
               /\ IsPrefix(cur[c].message_history,
                           runs'[run_id[c]].messages)]_vars
    /\ []OneTurnAtATime =>
          [](\A c \in Conns :
                InTurn(c) /\ runs[run_id[c]].present =>
                    IsPrefix(runs[run_id[c]].messages, cur[c].hist))

\* a resumed turn that started from the stored messages has ended with a
\* plain answer and stored a longer list
C14_Witness ==
    \E c \in Conns :
        /\ pc[c] = "finish"
        /\ turns[c] >= 2
        /\ cur[c].message_history # <<>>
        /\ runs[run_id[c]].present
        /\ runs[run_id[c]].messages = cur[c].hist
        /\ Len(cur[c].message_history) < Len(cur[c].hist)

\* the run's last update is older than the configured TTL
RunExpired(r) ==
    /\ _ttl # NoInt
    /\ last_updated[r] # NoInt
    /\ now - last_updated[r][1] > _ttl[1]

\* C15: no Run Store operation returns state of an expired run.  Once the
\* last update of run r is older than the TTL, get(r) returns None and
\* leaves no entry for r; set_messages and set_pending on r return a fresh
\* state that holds only what the call supplied (nothing of the expired
\* messages, pending requests or model) - in every reachable state of
\* either store, whatever calls and clock advances led there.
C15_NoExpiredState ==
    [][now' = now /\ stOp'.run_id \in RunIds /\ RunExpired(stOp'.run_id) =>
          LET r == stOp'.run_id
              call == stOp'.name
          IN /\ call = "get" =>
                   /\ Get(r)
                   /\ stRet'.state = NoRun
                   /\ ~runs'[r].present
             /\ call = "set_messages" =>
                   /\ SetMessages(r, stOp'.messages, stOp'.model)
                   /\ stRet'.state.pending = NonePending
                   /\ stRet'.state.model = stOp'.model
                   /\ Len(stRet'.state.messages) <= Len(stOp'.messages)
                   /\ runs'[r] = stRet'.state
             /\ call = "set_pending" =>
                   /\ SetPending(r, stOp'.pending, stOp'.model)
                   /\ stRet'.state = RunState(<<>>, stOp'.pending, stOp'.model)
                   /\ runs'[r] = stRet'.state]_vars

\* a run with messages and pending requests has expired and is still in
\* the table, after a get of the other run returned None
C15_Witness ==
    \E r \in RunIds :
        /\ RunExpired(r)
        /\ runs[r].present
        /\ runs[r].messages # <<>>
        /\ runs[r].pending # NonePending
        /\ stOp.name = "get" /\ stOp.run_id # r
        /\ stRet.state = NoRun

\* C16 as stated: a Run Store configured with a TTL of 0 minutes returns
\* None on the very next get of a run after set_messages on that run.
C16_ZeroTtlAbsent ==
    [][\A r \in RunIds :
          (/\ settings.run_store_ttl_minutes = <<0>>
           /\ stOp.name = "set_messages"
           /\ stOp.run_id = r
           /\ Get(r))
          => stRet'.state = NoRun]_vars

\* C17: a Run Store with no TTL configured never expires a run.  Every
\* cleanup_expired returns 0 and leaves the store as it was; every get
\* returns the stored state of the run, whatever the clock says, and
\* leaves the store as it was; and a run leaves the store only by clear.
C17_NoTtlNoExpiry ==
    [][settings.run_store_ttl_minutes = NoInt /\ now' = now =>
          /\ stOp'.name = "cleanup_expired" =>
                /\ CleanupExpired
                /\ stRet'.count = 0
                /\ UNCHANGED storeVars
          /\ stOp'.name = "get" =>
                /\ Get(stOp'.run_id)
                /\ stRet'.state = runs[stOp'.run_id]
                /\ UNCHANGED storeVars
          /\ \A r \in RunIds :
                runs[r].present /\ ~runs'[r].present =>
                   stOp'.name = "clear" /\ stOp'.run_id = r]_vars

\* without a TTL, a get returned the messages of a run that was last
\* updated as long ago as the clock allows
C17_Witness ==
    /\ settings.run_store_ttl_minutes = NoInt
    /\ now = MaxClock
    /\ stOp.name = "get"
    /\ stRet.state.present
    /\ stRet.state.messages # <<>>
    /\ last_updated[stOp.run_id] = <<0>>

\* C18: set_messages with a configured cap N > 0 stores exactly the last
\* min(N, len(messages)) entries of the supplied list, in their order;
\* with no cap, or a cap of zero or less, it stores the whole list.  The
\* state it returns holds the same messages.  (Stated of every state in
\* which set_messages was the last call: only the clock has moved since.)
C18_CapKeepsNewest ==
    stOp.name = "set_messages" =>
        LET messages == stOp.messages
            cap == settings.run_store_max_messages
            stored == runs[stOp.run_id].messages
            k == Len(stored)
        IN /\ stRet.state.messages = stored
           /\ IF cap # NoInt /\ cap[1] > 0
              THEN /\ k = IF cap[1] < Len(messages) THEN cap[1]
                          ELSE Len(messages)
                   /\ \A i \in 1..k :
                         stored[i] = messages[Len(messages) - k + i]
              ELSE stored = messages

\* with a cap of two messages, set_messages was handed three messages and
\* stored the two newer ones in their order
C18_Witness ==
    /\ settings.run_store_max_messages = <<2>>
    /\ stOp.name = "set_messages"
    /\ Len(stOp.messages) = 3
    /\ stOp.messages[2] # stOp.messages[3]
    /\ runs[stOp.run_id].messages = <<stOp.messages[2], stOp.messages[3]>>

\* C19: clear(run_id) removes all state of the run: the next get of the
\* run returns None.  On a run that is already absent it changes nothing
\* (and does not raise), so a clear directly after a clear of the same run
\* leaves the store as the first one left it; and no clear changes the
\* state or the time stamp of another run.
C19_ClearIdempotent ==
    [][now' = now =>
          /\ stOp'.name = "clear" =>
                LET r == stOp'.run_id IN
                /\ Clear(r)
                /\ ~runs'[r].present
                /\ last_updated'[r] = NoInt
                /\ \A o \in RunIds \ {r} :
                      runs'[o] = runs[o] /\ last_updated'[o] = last_updated[o]
                /\ ~runs[r].present => UNCHANGED storeVars
                /\ stOp.name = "clear" /\ stOp.run_id = r =>
                      UNCHANGED storeVars
          /\ stOp.name = "clear" /\ stOp'.name = "get"
             /\ stOp'.run_id = stOp.run_id =>
                /\ Get(stOp.run_id)
                /\ stRet'.state = NoRun]_vars

\* a run was cleared some time after a store call, and the other run
\* still holds its messages
C19_Witness ==
    /\ stOp.name = "clear"
    /\ ~runs[stOp.run_id].present
    /\ \E o \in RunIds \ {stOp.run_id} :
          runs[o].present /\ runs[o].messages # <<>>
    /\ \E r \in RunIds : last_updated[r] # NoInt /\ last_updated[r][1] < now

\* C20: within one run id every store() returns an artifact id distinct
\* from every id returned for that run before, whether or not the earlier
\* artifacts are still in the store: the id carries the run's counter,
\* which a store() of the run raises by one and nothing else changes (no
\* eviction, no store() of another run).
C20_ArtifactIdsDistinct ==
    /\ [](\A r \in ArtifactRunIds :
            /\ \A i \in 1..Len(artifact_ids[r]) :
                  \A j \in 1..Len(artifact_ids[r]) :
                     i # j => artifact_ids[r][i] # artifact_ids[r][j]
            /\ \A i \in 1..Len(artifact_ids[r]) :
                  LET id == artifact_ids[r][i] IN
                  SubSeq(id, Len(id) - Len(Digits(i)), Len(id))
                     = <<"_">> \o Digits(i)
            /\ _run_counters[r] = Len(artifact_ids[r]))
    /\ [][\A r \in ArtifactRunIds :
            /\ _run_counters'[r] >= _run_counters[r]
            /\ _run_counters'[r] # _run_counters[r] =>
                  /\ store(r)
                  /\ _run_counters'[r] = _run_counters[r] + 1
                  /\ \A o \in ArtifactRunIds \ {r} :
                        _run_counters'[o] = _run_counters[o]]_vars

\* a run was given a second id after its first artifact had been evicted
C20_Witness ==
    \E r \in ArtifactRunIds :
        /\ r # <<>>
        /\ Len(artifact_ids[r]) = 2
        /\ artifact_ids[r][1] # artifact_ids[r][2]
        /\ \A a \in _store : a.run_id = r => a.id = artifact_ids[r][2]
        /\ \E a \in _store : a.run_id = r

\* C21 as stated: artifacts are namespaced by run id.  Whatever run id and
\* artifact id a client supplies, get returns only an artifact that was
\* stored under that run id, and list_artifacts lists only ids of
\* artifacts stored under that run id.
C21_RunNamespace ==
    /\ artOp.name = "get" /\ artRet.artifact # NoArtifact =>
          artRet.artifact.run_id = artOp.run_id
    /\ artOp.name = "list_artifacts" =>
          \A id \in artRet.ids :
             \E a \in _store : a.run_id = artOp.run_id /\ a.id = id

\* the artifacts of the store that are older than the TTL
Outdated == {a \in _store : now - a.created_at > _artifact_ttl}

\* C22: the artifact store never returns an artifact whose age exceeds
\* the TTL.  Every call first drops the outdated artifacts; get returns
\* None for a key whose artifact was outdated; cleanup_expired removes
\* exactly the outdated artifacts and returns their number.  With a TTL of
\* 0 that is every artifact created before the present clock reading.
C22_NoOutdatedArtifact ==
    [][now' = now /\ artOp'.name # None =>
          /\ _store' \cap Outdated = {}
          /\ artOp'.name = "get" =>
                /\ artifact_get(artOp'.run_id, artOp'.artifact_id)
                /\ artRet'.artifact \notin Outdated
                /\ artRet'.artifact # NoArtifact =>
                      /\ artRet'.artifact \in _store
                      /\ _artifact_ttl = 0 =>
                            artRet'.artifact.created_at = now
          /\ artOp'.name = "cleanup_expired" =>
                /\ ArtifactCleanup
                /\ _store' = _store \ Outdated
                /\ artRet'.count = Cardinality(Outdated)]_vars

\* the case of the test: with a TTL of 0, cleanup_expired removed and
\* counted an artifact and left the store empty
C22_Witness ==
    /\ _artifact_ttl = 0
    /\ artOp.name = "cleanup_expired"
    /\ artRet.count >= 1
    /\ _store = {}

\* the place of a chunk in the sequence the transformer produces for one
\* turn: results of the calls resolved, the model's text, its tool calls,
\* the announcements of the deferred requests, the done chunk
TurnRank(f) ==
    CASE f.type = "tool_result" -> 1
      [] f.type = "content" -> 2
      [] f.type = "tool_call" -> 3
      [] f.type \in AnnouncementTypes -> 4
      [] f.type = "done" -> 5
      [] OTHER -> 0

\* the chunks of the turn a stream is in: what follows the last suspension
\* chunk or keep-alive line
CurrentTurn(s) ==
    LET B == {i \in 1..Len(s) :
                s[i].type \in AnnouncementTypes \cup {KeepAlive.type}}
    IN SubSeq(s, IF B = {} THEN 1
                  ELSE (CHOOSE m \in B : \A k \in B : k <= m) + 1, Len(s))

KeepAlives(c) == Len(SelectSeq(out[c], LAMBDA f : f = KeepAlive))

\* the payload a step handed to task c from a mailbox, as a set
GotBy(c) ==
    {p \in Payloads : \E q \in QIds : taken'[q] = Append(taken[q], <<c, p>>)}

\* C24: a suspended stream has emitted one keep-alive line per wait that
\* timed out.  The step in which a wait times out appends exactly one
\* keep-alive line, leaves the stream in its wait loop about to call wait
\* again (the stream is not ended, no adapter is built, no turn started),
\* and takes nothing from a mailbox.  A stream about to call wait can do
\* so, and every wait can time out again.  The wait loop is only ever left
\* with a non-empty payload taken from the mailbox, or by the client's
\* disconnect.
C24_KeepAlivePerTimeout ==
    /\ [](\A c \in Conns :
            /\ KeepAlives(c) = timeouts[c]
            /\ pc[c] = "wait" => ENABLED Wait(c)
            /\ pc[c] = "blocked" /\ timeouts[c] < MaxKeepAlive =>
                  ENABLED Timeout(c))
    /\ [][\A c \in Conns :
            /\ timeouts'[c] # timeouts[c] =>
                  /\ timeouts'[c] = timeouts[c] + 1
                  /\ pc[c] = "blocked" /\ pc'[c] = "wait"
                  /\ Appended(c) = <<KeepAlive>>
                  /\ cur'[c] = cur[c]
                  /\ \A d \in Conns : GotBy(d) = {}
                  /\ \A q \in QIds : qbuf'[q] \in {qbuf[q], <<>>}
            /\ Suspended(c) /\ pc'[c] \notin {"wait", "blocked"} =>
                  \/ pc'[c] = "cancelled"
                  \/ /\ pc'[c] = "resumed"
                     /\ timeouts'[c] = timeouts[c]
                     /\ \E p \in GotBy(c) : ~IsEmptyPayload(p)]_vars

\* a stream whose wait timed out twice, that waited a third time and was
\* then resumed by a payload
C24_Witness ==
    \E c \in Conns :
        /\ timeouts[c] = 2
        /\ KeepAlives(c) = 2
        /\ pc[c] = "resumed"

\* C25: a payload without approvals and without tool results never wakes a
\* suspended stream.  The stream that takes one from the mailbox drops it:
\* it emits nothing, builds no adapter and is back in its wait loop.  A
\* payload with an approval or a tool result makes the stream leave the
\* loop with the adapter of the next turn built from that payload; the
\* payload a resumed turn runs on is never empty.
C25_EmptyPayloadDiscarded ==
    /\ [](\A c \in Conns :
            pc[c] = "resumed" => ~IsEmptyPayload(cur[c].payload))
    /\ [][\A c \in Conns : \A p \in GotBy(c) :
            IF IsEmptyPayload(p)
            THEN /\ pc'[c] = "wait"
                 /\ cur'[c] = cur[c]
                 /\ out' = out
            ELSE /\ pc'[c] = "resumed"
                 /\ cur'[c].payload = p]_vars

\* a stream took the empty payload from its mailbox, kept waiting, and was
\* resumed by the payload pushed after it
C25_Witness ==
    \E c \in Conns : \E q \in QIds :
        /\ Len(taken[q]) = 2
        /\ taken[q][1] = <<c, EmptyPayload>>
        /\ taken[q][2][1] = c
        /\ pc[c] = "resumed"

\* C26: push never blocks.  In every state the hub can be in -- a consumer
\* blocked in wait on the same run id, on another one, or none at all, the
\* mailbox empty or holding any number of payloads -- the lock of the hub is
\* free and a push of any payload for any run id can be completed at once;
\* the step that puts a payload moves no task.
C26_PushNeverBlocks ==
    /\ [](/\ _lock = NoInt
          /\ \A r \in RunIds : \A p \in HubPayloads :
                pushes < MaxHubPush => ENABLED push(r, p))
    /\ [][pushes' # pushes => pc' = pc /\ waitq' = waitq /\ out' = out]_vars

\* a push completed while a consumer was blocked in wait on the run id:
\* the payload lies in the mailbox the consumer holds
C26_Witness ==
    \E c \in Conns :
        /\ pc[c] = "blocked"
        /\ waitq[c] = queues[run_id[c]]
        /\ qbuf[waitq[c]] # <<>>
        /\ put[waitq[c]] = qbuf[waitq[c]]

\* the payloads of a record of takes
Payload(log) == [i \in 1..Len(log) |-> log[i][2]]

\* C27: every mailbox delivers what was put into it once and in the order
\* of the pushes: at any moment the payloads put into a mailbox are those
\* the waits have returned from it, in order, followed by those it still
\* holds -- none is lost, doubled or overtaken, whichever of several
\* waiters takes it.  A run id keeps its mailbox until clear.  A wait called
\* on a mailbox that holds a payload returns the head at once, and a wait
\* that times out takes nothing.
C27_FifoExactlyOnce ==
    /\ [](\A r \in RunIds :
            HubHas(queues, r) =>
                put[queues[r]] = Payload(taken[queues[r]]) \o qbuf[queues[r]])
    /\ [][/\ \A r \in RunIds :
                HubHas(queues, r) /\ queues'[r] # queues[r] =>
                    \E c \in Conns : run_id[c] = r /\ Ended(c)'
          /\ \A c \in Conns :
                /\ pc[c] = "wait" /\ pc'[c] \notin {"wait", "blocked", "resumed"}
                     => pc'[c] = "cancelled"
                /\ pc[c] = "wait" /\ HubHas(queues, run_id[c])
                   /\ qbuf[queues[run_id[c]]] # <<>>
                   /\ pc'[c] # pc[c] /\ pc'[c] # "cancelled" =>
                       GotBy(c) = {Head(qbuf[queues[run_id[c]]])}
                /\ pc[c] = "wait" /\ pc'[c] = "wait" /\ GotBy(c) # {} =>
                       GotBy(c) = {EmptyPayload}
                /\ timeouts'[c] # timeouts[c] =>
                       \A r \in RunIds :
                           HubHas(queues, r) =>
                               /\ queues'[r] = queues[r]
                               /\ qbuf'[queues[r]] = qbuf[queues[r]]
                               /\ put'[queues[r]] = put[queues[r]]
                               /\ taken'[queues[r]] = taken[queues[r]]]_vars

\* two different payloads pushed for one run id went to two waiters of the
\* run, each to one of them, in the order pushed
C27_Witness ==
    \E q \in QIds : \E c \in Conns : \E d \in Conns \ {c} :
        /\ Len(put[q]) = 2 /\ put[q][1] # put[q][2]
        /\ taken[q] = << <<c, put[q][1]>>, <<d, put[q][2]>> >>
        /\ qbuf[q] = <<>>
        /\ run_id[c] = run_id[d]
        /\ queues[run_id[c]] = q

\* stream c leaves its turn loop: from a position inside the try block to
\* one outside, or by the input error of its very first turn
LeavesTurnLoop(c) ==
    \/ pc[c] \in TryPcs /\ pc'[c] \notin TryPcs
    \/ pc[c] = "idle" /\ exc'[c] = "input"

\* C28: the step in which a stream leaves its turn loop -- after a plain
\* answer, by an exception of a turn, or by cancellation, also while it
\* waits -- leaves the hub without a mailbox for the stream's run id, and no
\* [DONE] sentinel has been sent by then.  The sentinel is only ever sent
\* by the step that leaves the loop after a plain answer, once the hub is
\* cleared, or by the wrapper after the exception has left stream().
C28_HubCleared ==
    [][\A c \in Conns :
          /\ LeavesTurnLoop(c) =>
                /\ ~HubHas(queues', run_id'[c])
                /\ At(out[c], "[DONE]") = {}
                /\ pc'[c] \in {"closed", "raised", "cancelled"}
          /\ (\E i \in 1..Len(Appended(c)) : Appended(c)[i] = encode_done) =>
                \/ pc[c] = "finish" /\ ~HubHas(queues', run_id[c])
                \/ pc[c] = "raised"]_vars

\* one stream waited, was resumed over the hub and left its loop when the
\* approved tool failed; the other was cancelled while it waited; the hub
\* holds no mailbox
C28_Witness ==
    /\ pc[1] = "closed" /\ exc[1] = "tool" /\ turns[1] = 2 /\ lastPost = "ok"
    /\ pc[2] = "cancelled" /\ At(out[2], KeepAlive.type) # {}
    /\ \A r \in RunIds : ~HubHas(queues, r)

\* the last call was a set_messages or set_pending on a run that was
\* stored and not expired when it was made
Upserted(r) ==
    /\ now' = now
    /\ stOp'.name \in {"set_messages", "set_pending"}
    /\ stOp'.run_id = r
    /\ runs[r].present
    /\ ~RunExpired(r)

\* C29 as stated: set_messages and set_pending on a stored run change the
\* stored model only when a non-empty model is supplied; with the model
\* absent or empty the stored model stays what it was.
C29_ModelPreserved ==
    [][\A r \in RunIds :
          Upserted(r) =>
              runs'[r].model = IF stOp'.model \in {None, ""}
                               THEN runs[r].model
                               ELSE stOp'.model]_vars

\* what a stored run holds besides its model
Held(state) == <<state.messages, state.pending>>

\* C30: on a stored run, set_pending leaves the messages as they are and
\* makes the pending requests exactly those supplied (none of the former
\* ones stay, and supplying None leaves None); set_messages leaves the
\* pending requests as they are and stores the supplied messages (cut to
\* the cap).  On a run that is not stored (never was, was cleared, or has
\* expired) set_pending creates it with no messages and set_messages
\* creates it with no pending requests.  The call returns what is stored.
C30_OtherFieldKept ==
    [][now' = now /\ stOp'.name \in {"set_messages", "set_pending"} =>
          LET r == stOp'.run_id
              old == IF runs[r].present /\ ~RunExpired(r)
                     THEN Held(runs[r])
                     ELSE <<(<<>>), NonePending>>
          IN /\ runs'[r].present
             /\ stRet'.state = runs'[r]
             /\ stOp'.name = "set_pending" =>
                   /\ SetPending(r, stOp'.pending, stOp'.model)
                   /\ Held(runs'[r]) = <<old[1], stOp'.pending>>
             /\ stOp'.name = "set_messages" =>
                   /\ SetMessages(r, stOp'.messages, stOp'.model)
                   /\ runs'[r].pending = old[2]
                   /\ \E k \in 0..Len(stOp'.messages) :
                         /\ runs'[r].messages =
                               SubSeq(stOp'.messages, k + 1,
                                      Len(stOp'.messages))
                         /\ _max_messages = NoInt => k = 0]_vars

\* set_pending replaced one pending request by another on a run that holds
\* messages, and the messages are still there
C30_Witness ==
    /\ stOp.name = "set_pending"
    /\ stOp.pending = {ToolReq("t1", "external")}
    /\ runs[stOp.run_id].pending = {ToolReq("t1", "external")}
    /\ runs[stOp.run_id].messages # <<>>
    /\ settings.run_store_backend = "postgres"

\* C31: with a TTL configured, cleanup_expired removes exactly the runs
\* whose last update is older than the TTL (a run updated exactly TTL ago
\* stays), leaves the state and the time stamp of every other run as they
\* were, and returns the number of runs it removed - in either store.
C31_CleanupExact ==
    [][_ttl # NoInt /\ now' = now /\ stOp'.name = "cleanup_expired" =>
          LET expired == {r \in RunIds : runs[r].present /\ RunExpired(r)}
          IN /\ CleanupExpired
             /\ \A r \in expired :
                   ~runs'[r].present /\ last_updated'[r] = NoInt
             /\ \A r \in RunIds \ expired :
                   runs'[r] = runs[r] /\ last_updated'[r] = last_updated[r]
             /\ stRet'.count = Cardinality(expired)
             /\ stRet'.count =
                   Cardinality({r \in RunIds :
                                   runs[r].present /\ ~runs'[r].present})]_vars

\* cleanup_expired removed one run and returned 1, and kept a run with
\* messages whose last update is exactly the TTL ago
C31_Witness ==
    /\ _ttl # NoInt
    /\ stOp.name = "cleanup_expired"
    /\ stRet.count = 1
    /\ \E r \in RunIds :
          /\ runs[r].present
          /\ runs[r].messages # <<>>
          /\ last_updated[r] = <<now - _ttl[1]>>
    /\ \E r \in RunIds : ~runs[r].present

\* C32 as stated: the in-memory and the PostgreSQL run store, run side by
\* side from empty with the same TTL and cap and the same clock, return
\* equal results from every get, set_messages, set_pending, clear and
\* cleanup_expired call (same absent/present, same messages, pending and
\* model, same removal count), for every sequence of calls.
C32_SameResults == stRet = pgRet

\* what the two stores do agree on: every result but the count of
\* cleanup_expired, and the state and time stamp of every run but those
\* that have expired and are still rows of the table; the in-memory store
\* never counts more removals than the table
SideBySideAgree ==
    /\ stOp.name # "cleanup_expired" => stRet = pgRet
    /\ stRet.count <= pgRet.count
    /\ \A r \in RunIds :
          \/ /\ runs[r] = run_store.runs[r]
             /\ last_updated[r] = run_store.last_updated[r]
          \/ /\ ~runs[r].present
             /\ run_store.runs[r].present
             /\ _is_expired(run_store.last_updated[r])

\* a frame that is a chunk (not a keep-alive line, not the sentinel)
IsChunk(f) == f # KeepAlive /\ f # encode_done

\* C33: one run id per stream.  The run id of a request is the one its
\* body carries, or else the one id minted for it, and it never changes
\* while the stream lives.  Every chunk of the response - the error and
\* done chunks of a failure path included - carries it, every adapter the
\* stream builds has it, the mailbox the stream waits on was made for it,
\* and a hub entry disappears only when a stream of that run id leaves
\* its turn loop.
C33_OneRunId ==
    /\ [](\A c \in Conns :
            pc[c] # "idle" =>
               /\ \A i \in 1..Len(out[c]) :
                     IsChunk(out[c][i]) => out[c][i].id = run_id[c]
               /\ cur[c] # NoAdapter => cur[c].run_id = run_id[c]
               /\ waitq[c] # 0 =>
                     \A r \in RunIds \ {run_id[c]} : queues[r] # waitq[c])
    /\ [][/\ \A c \in Conns :
               /\ pc[c] = "idle" /\ pc'[c] # "idle" =>
                     /\ \E b \in Bodies(c) : chat(c, b)
                     /\ \A b \in Bodies(c) :
                           chat(c, b) =>
                              run_id'[c] = IF b.valid /\ b.run_id # None
                                           THEN b.run_id ELSE MintedId(c)
               /\ pc[c] # "idle" => run_id'[c] = run_id[c]
          /\ \A r \in RunIds :
               queues[r] # 0 /\ queues'[r] = 0 =>
                  \E c \in Conns : /\ run_id'[c] = r
                                   /\ pc[c] \in TryPcs \cup {"idle"}
                                   /\ pc'[c] \notin TryPcs]_vars

\* a stream whose body carried a run id other than the one that would
\* have been minted for it has shown a chunk of its adapter, failed, and
\* ended with the error tail; another stream got a minted id
C33_Witness ==
    \E c \in Conns :
        /\ pc[c] = "closed"
        /\ run_id[c] # MintedId(c)
        /\ \E i, j \in 1..Len(out[c]) :
              /\ i < j
              /\ out[c][i].type = "content"
              /\ out[c][j].type = "error"
        /\ \E d \in Conns \ {c} : pc[d] # "idle" /\ run_id[d] = MintedId(d)

\* C34: a stream that terminates normally contains exactly one done chunk
\* and exactly one [DONE] sentinel, however many turns ran on the
\* connection: a turn that ends suspended adds no done chunk, the final
\* plain-answer turn adds exactly one, and the end of the stream adds the
\* sentinel and no done chunk.
C34_OneDoneOneSentinel ==
    /\ [](\A c \in Conns :
            Closed(c) /\ exc[c] = None =>
               /\ Cardinality(At(out[c], "done")) = 1
               /\ Cardinality(At(out[c], "[DONE]")) = 1)
    /\ [][\A c \in Conns :
            /\ pc[c] = "result" /\ pc'[c] = "wait" =>
                  At(out'[c], "done") = At(out[c], "done")
            /\ pc[c] = "result" /\ pc'[c] = "finish" =>
                  /\ At(out[c], "done") = {}
                  /\ At(out'[c], "done") = {Len(out'[c])}
            /\ pc[c] = "finish" /\ pc'[c] = "closed" =>
                  /\ At(out'[c], "done") = At(out[c], "done")
                  /\ At(out'[c], "[DONE]") = {Len(out'[c])}]_vars

\* a stream ended normally after two turns: the first ended suspended and
\* announced its request, the second gave the plain answer
C34_Witness ==
    \E c \in Conns :
        /\ Closed(c) /\ exc[c] = None
        /\ turns[c] >= 2
        /\ At(out[c], "approval-requested") \cup
              At(out[c], "tool-input-available") # {}
        /\ Cardinality(At(out[c], "done")) = 1

\* a count is found: usage_data has a number under one of the names
Counted(data, names) ==
    \E i \in 1..Len(names) : data[names[i]].key /\ ~data[names[i]].none

\* C35 as stated: the usage provider yields usage only when both a prompt
\* and a completion token count are found under one of the accepted field
\* names; totalTokens is the supplied total or, when absent, prompt +
\* completion; when the result is absent, its usage() call fails, or a
\* count is missing, usage is omitted - and no exception reaches the
\* stream.
C35_UsageOrOmitted ==
    usage # NotCalled =>
       LET r == captured_result IN
       /\ usage.outcome \in {"usage", "omitted"}
       /\ usage.outcome = "usage" =>
             /\ r.result /\ ~r.raises
             /\ Counted(r.data, PromptNames)
             /\ Counted(r.data, CompletionNames)
             /\ usage.totalTokens =
                   IF Counted(r.data, TotalNames)
                   THEN _get_usage_value(r.data, TotalNames).n
                   ELSE usage.promptTokens + usage.completionTokens
       /\ (\/ ~r.result
           \/ r.raises
           \/ ~Counted(r.data, PromptNames)
           \/ ~Counted(r.data, CompletionNames)) => usage = Omitted

\* what does hold of the provider: it raises exactly when the first key
\* or attribute found for one of the three counts holds None; otherwise
\* it yields usage exactly when a prompt and a completion count are found,
\* with the supplied total or else their sum, and omits it in every other
\* case
UsageUnlessNone ==
    usage # NotCalled =>
       LET r == captured_result
           none == /\ r.result /\ ~r.raises /\ ~Falsy(r)
                   /\ \E names \in {PromptNames, CompletionNames, TotalNames} :
                         _get_usage_value(r.data, names).none
       IN /\ usage = Raised <=> none
          /\ ~none =>
               IF /\ r.result /\ ~r.raises
                  /\ _get_usage_value(r.data, PromptNames).key
                  /\ _get_usage_value(r.data, CompletionNames).key
               THEN /\ usage.outcome = "usage"
                    /\ usage.promptTokens =
                          _get_usage_value(r.data, PromptNames).n
                    /\ usage.completionTokens =
                          _get_usage_value(r.data, CompletionNames).n
                    /\ usage.totalTokens =
                          IF _get_usage_value(r.data, TotalNames).key
                          THEN _get_usage_value(r.data, TotalNames).n
                          ELSE usage.promptTokens + usage.completionTokens
               ELSE usage = Omitted

\* a stream of run r is open: it is inside the try block of stream()
OpenFor(r) == \E c \in Conns : run_id[c] = r /\ pc[c] \in TryPcs

\* C36 as stated: a payload consumed by a stream's wait loop was pushed
\* during that stream's lifetime.  The hub holds a mailbox of a run id only
\* while a stream of that run is open (a push for a run without an open
\* stream leaves no mailbox behind), and no stream opens to find a payload
\* in the mailbox of its run id.
C36_AsStated ==
    /\ [](\A r \in RunIds : HubHas(queues, r) => OpenFor(r))
    /\ [][\A c \in Conns :
            (/\ pc[c] = "idle"
             /\ pc'[c] \in TryPcs
             /\ HubHas(queues', run_id'[c])) =>
               qbuf'[queues'[run_id'[c]]] = <<>>]_vars

\* C36, amended: a payload pushed for a run id is put into the mailbox of
\* that run id whether or not a stream of the run is open - the push makes
\* the mailbox when the hub has none.  The mailbox and its payloads stay
\* until a stream of that run id takes them or leaves its turn loop.  A
\* stream that reaches its wait loop while the mailbox of its run id holds
\* a payload never blocks: it takes the head at once, whenever that was
\* pushed, and starts its next turn from it.
C36_PushedForLater ==
    [][/\ \A rid \in PostRunIds, p \in Payloads :
            post_continuation(rid, p) /\ PostStatus(rid, p) = "ok" =>
               /\ HubHas(queues', rid)
               /\ qbuf'[queues'[rid]] =
                     IF HubHas(queues, rid)
                     THEN Append(qbuf[queues[rid]], p) ELSE <<p>>
       /\ \A r \in RunIds :
            (/\ HubHas(queues, r)
             /\ \/ ~HubHas(queues', r)
                \/ Len(qbuf'[queues[r]]) < Len(qbuf[queues[r]]))
            => \E c \in Conns :
                  /\ run_id'[c] = r
                  /\ \/ LeavesTurnLoop(c)
                     \/ pc[c] \in {"wait", "blocked"}
       /\ \A c \in Conns :
            (/\ pc[c] = "wait"
             /\ HubHas(queues, run_id[c])
             /\ qbuf[queues[run_id[c]]] # <<>>
             /\ pc'[c] \notin {"wait", "cancelled"}) =>
               /\ pc'[c] # "blocked"
               /\ turns'[c] = turns[c] + 1
               /\ ~IsEmptyPayload(Head(qbuf[queues[run_id[c]]]))
               /\ pc'[c] # "raised" =>
                     /\ cur'[c].payload = Head(qbuf[queues[run_id[c]]])
                     /\ qbuf'[queues[run_id[c]]] = Tail(qbuf[queues[run_id[c]]])
      ]_vars

\* no stream has been opened yet, and the hub holds a mailbox for the run
\* with the payload pushed for it
C36_Witness ==
    /\ \A c \in Conns : pc[c] = "idle"
    /\ lastPost = "ok"
    /\ HubHas(queues, "u1")
    /\ Len(qbuf[queues["u1"]]) = 1
    /\ ~IsEmptyPayload(qbuf[queues["u1"]][1])

\* stream c is blocked on a mailbox that the hub no longer has for its
\* run id: another stream of the run has called clear since c began to wait
Orphaned(c) ==
    /\ pc[c] = "blocked"
    /\ waitq[c] # 0
    /\ queues[run_id[c]] # waitq[c]

\* C37: clear issued by one stream does not cost another stream of the
\* run its input.  While a stream is blocked on a mailbox that a clear of
\* another stream has taken out of the hub, a push for the run puts the
\* payload into the mailbox the hub then has for the run, never into the
\* orphaned one; the blocked stream's wait can time out, its timeout
\* leaves that mailbox as it is and the stream about to call wait again;
\* and the wait it then calls returns the head of that mailbox at once.
C37_ClearCostsNoInput ==
    /\ [](\A c \in Conns :
            /\ Orphaned(c) /\ KeepAlives(c) < MaxKeepAlive =>
                  ENABLED Timeout(c)
            /\ pc[c] = "wait" => ENABLED Wait(c))
    /\ [][\A c \in Conns :
            /\ Orphaned(c) /\ pushes' # pushes =>
                  /\ Orphaned(c)'
                  /\ qbuf'[waitq[c]] = qbuf[waitq[c]]
                  /\ \E r \in RunIds, p \in HubPayloads :
                        /\ push(r, p)
                        /\ HubHas(queues', r)
                        /\ qbuf'[queues'[r]] # <<>>
                        /\ qbuf'[queues'[r]][Len(qbuf'[queues'[r]])] = p
            /\ Orphaned(c) /\ timeouts'[c] # timeouts[c] =>
                  /\ pc'[c] = "wait"
                  /\ waitq'[c] = 0
                  /\ queues' = queues
                  /\ HubHas(queues, run_id[c]) =>
                        qbuf'[queues[run_id[c]]] = qbuf[queues[run_id[c]]]
            /\ (/\ pc[c] = "wait"
                /\ pc'[c] \notin {"wait", "cancelled"}
                /\ HubHas(queues, run_id[c])
                /\ qbuf[queues[run_id[c]]] # <<>>) =>
                  /\ GotBy(c) = {Head(qbuf[queues[run_id[c]]])}
                  /\ pc'[c] = "resumed"
                  /\ cur'[c].payload = Head(qbuf[queues[run_id[c]]])]_vars

\* the one payload pushed went into the second mailbox made, and the hub
\* has no mailbox of another run: the first mailbox was still held by the
\* blocked stream c when the push made the second, so the other stream d
\* had ended and cleared the hub before the push; c, after its one
\* timeout, has called wait again and has taken the payload from there
C37_Witness ==
    \E c \in Conns : \E d \in Conns \ {c} :
        /\ run_id[d] = run_id[c]
        /\ pc[d] \in {"closed", "cancelled"}
        /\ pc[c] = "resumed"
        /\ timeouts[c] = 1
        /\ pushes = 1
        /\ queues[run_id[c]] = 2
        /\ \A r \in RunIds \ {run_id[c]} : queues[r] = 0
        /\ Len(put[2]) = 1
        /\ ~IsEmptyPayload(put[2][1])
        /\ taken[2] = <<<<c, put[2][1]>>>>
        /\ cur[c].payload = put[2][1]

\* the store holds run r and the time since its last update is no more
\* than the TTL
Unexpired(r) == runs[r].present /\ ~IsExpired(Store, r)

\* the methods that write a run
Writes == {"set", "upsert", "set_messages", "set_pending"}

\* C38: reading does not extend a run's lifetime.  A get leaves the
\* state and the time of the last update of every run that has not
\* expired as they were, and returns the state of such a run; the time of
\* the last update of a run changes to a new time only in a set, upsert,
\* set_messages or set_pending of that run, and then to the time of the
\* call; so a get of a run whose last write is more than the TTL ago
\* finds no run, whatever was read in between.
C38_ReadingDoesNotRefresh ==
    [][/\ \A r \in RunIds :
            Get(r) =>
               /\ \A r2 \in RunIds :
                     Unexpired(r2) =>
                        /\ runs'[r2] = runs[r2]
                        /\ last_updated'[r2] = last_updated[r2]
               /\ Unexpired(r) => stRet'.state = runs[r]
               /\ IsExpired(Store, r) =>
                     /\ stRet'.state = NoRun
                     /\ ~runs'[r].present
       /\ \A r \in RunIds :
            (last_updated'[r] # last_updated[r] /\ last_updated'[r] # NoInt)
               => /\ stOp'.name \in Writes
                  /\ stOp'.run_id = r
                  /\ last_updated'[r] = <<now>>]_vars

\* a run written earlier has just been read at the very end of its
\* lifetime: the get returned it, and its last update is still the write
C38_Witness ==
    \E r \in RunIds :
        /\ stOp.name = "get"
        /\ stOp.run_id = r
        /\ runs[r].present
        /\ stRet.state = runs[r]
        /\ _ttl # NoInt
        /\ now - last_updated[r][1] = _ttl[1]

\* C39: in an InMemoryRunStore the run ids that have a stored RunState
\* are the run ids that have a time of last update, after any sequence of
\* get, set, upsert, set_messages, set_pending, clear and cleanup_expired;
\* and the count cleanup_expired returns is the number of run states it
\* has removed.
C39_KeysAgree ==
    /\ [](InMemory =>
            \A r \in RunIds : runs[r].present <=> last_updated[r] # NoInt)
    /\ [][(InMemory /\ CleanupExpired) =>
             stRet'.count =
                Cardinality({r \in RunIds :
                                runs[r].present /\ ~runs'[r].present})]_vars

\* a cleanup_expired of an InMemoryRunStore has just removed every run of
\* the store, more than one, and has returned their number
C39_Witness ==
    /\ InMemory
    /\ stOp.name = "cleanup_expired"
    /\ stRet.count = Cardinality(RunIds)
    /\ Cardinality(RunIds) > 1
    /\ \A r \in RunIds : ~runs[r].present /\ last_updated[r] = NoInt

====
